---- MODULE Spec2Model ----
(***************************************************************************)
(* The tracker bootstrap of wmc: TRipClient::new parses the link with      *)
(* Magnet::from_link, runs Trackers::new (one                              *)
(* CONNECT exchange per tracker URL of the magnet, all futures driven by   *)
(* one FuturesUnordered under task::block_on) and then Trackers::announce  *)
(* (one ANNOUNCE exchange per connection that CONNECT produced).           *)
(*                                                                         *)
(* A datagram is modelled by its source address, its length in bytes and   *)
(* the fields of the wire layout it carries.  recv_from copies at most     *)
(* the buffer's length and reports the number of bytes copied, so a        *)
(* datagram longer than the buffer is reported with the buffer's length.   *)
(* Time is counted in seconds since the requests of the running phase      *)
(* were sent.                                                              *)
(***************************************************************************)
EXTENDS Integers, Sequences, FiniteSets, TLC

VARIABLES
    pc,           \* where TRipClient::new is
    trackers,     \* magnet.trackers, the tracker URLs in URI order
    elapsed,      \* seconds since the requests of the running phase were sent
    conn,         \* the futures of Trackers::new, one per tracker URL
    connDone,     \* indices of the completed CONNECT futures, in completion order
    connections,  \* Trackers.connections
    ann,          \* the futures of Trackers::announce, one per connection
    resolved,     \* the peer lists of the ANNOUNCE futures that returned Ok, in completion order
    peers,        \* the Vec<SocketAddr> that Trackers::announce returns
    rng,          \* the state of the process-wide random source
    issuedAt,     \* per connection, the second its connection_id was received (history)
    sent,         \* every datagram handed to send_to, in order (history)
    rx,           \* the datagram the last recv_from returned, and to whom (history)
    peer,         \* one PeerStream::connect call: its opts, its TCP stream, its session;
                  \* remote, frames, tail, written, consumed, out, last and before are
                  \* history: what the remote sends, what the calls did
    codec,        \* one HandShake carried through to_bytes and from_bytes, or one
                  \* message-id byte carried through MessageTypes::from
    magnet,       \* the link handed to Magnet::from_link and what from_link made of it
    peer_id,      \* the peer_id TRipClient::new makes for itself, <<>> before it does
    sockets       \* the UDP sockets bound and not yet dropped, each with the future
                  \* that owns it

vars == <<pc, trackers, elapsed, conn, connDone, connections, ann, resolved, peers,
          rng, issuedAt, sent, rx, peer, codec, magnet, peer_id, sockets>>

----------------------------------------------------------------------------
(* Bounds of the model *)

MaxPeers == 2         \* peer entries in one ANNOUNCE response
SlowResolve == 61     \* seconds a blocking to_socket_addrs call may take

(* Constants of the program *)

CONNECT_REQUEST_SIZE == 16
CONNECT_RESPONSE_SIZE == 16
ANNOUNCE_REQUEST_BYTES == 98
ANNOUNCE_BUFFER_SIZE == 4000
ANNOUNCE_HEADER_SIZE == 20
PEER_ENTRY_SIZE == 6
TIMEOUT_SECS == 3
ANNOUNCE_PORT == 6881
NUM_WANT == -1

(* From the specification: the validity window of a connection_id *)
CONNECTION_ID_TTL == 60

None == [task |-> 0]

Min(a, b) == IF a < b THEN a ELSE b

TxIds == {1, 2}                 \* values rand::random() draws for transaction_id
ConnIds == {7, 9}               \* connection ids a tracker hands out
PeerAddrs == {"p", "q"}         \* (ip, port) pairs a tracker lists

(* magnet.trackers of the magnets examined: none, one or two tracker URLs,  *)
(* udp://a and http://b                                                     *)
Urls == <<[scheme |-> "udp", host |-> "a"], [scheme |-> "http", host |-> "b"]>>

(* host_str() and port() of the URL, then to_socket_addrs: every host       *)
(* resolves to an address of its own, named after it; the scheme of the URL *)
(* is not looked at.  Stranger is an address that is no tracker's           *)
ResolvedAddr(url) == url.host
Stranger == "x"

(* Where the datagrams arriving at the socket of a future come from: the    *)
(* tracker the future talks to, or somebody else                            *)
Sources(url) == {ResolvedAddr(url), Stranger}

RECURSIVE SeqsUpTo(_, _)
SeqsUpTo(S, n) ==
    IF n = 0 THEN {<<>>}
    ELSE LET shorter == SeqsUpTo(S, n - 1)
         IN  shorter \cup {Append(s, x) : s \in {t \in shorter : Len(t) = n - 1}, x \in S}

(* A CONNECT response as it arrives: 8 bytes (action, transaction_id only), *)
(* the 16 bytes of the layout, or 20 bytes (4 bytes too many).              *)
ConnectDatagrams(url) ==
    [src : Sources(url), len : {8}, action : {0, 3},
     transaction_id : TxIds, connection_id : {0}]
    \cup
    [src : Sources(url), len : {16, 20}, action : {0, 3},
     transaction_id : TxIds, connection_id : ConnIds]

(* An ANNOUNCE response as it arrives: a header cut short at 8 bytes, or    *)
(* the 20-byte header followed by whole peer entries, or by one entry and   *)
(* 3 bytes more                                                             *)
AnnounceDatagrams(url) ==
    [src : Sources(url), header : {8}, action : {1, 3},
     transaction_id : TxIds, peers : {<<>>}, extra : {0}]
    \cup
    [src : Sources(url), header : {ANNOUNCE_HEADER_SIZE}, action : {1, 3},
     transaction_id : TxIds, peers : SeqsUpTo(PeerAddrs, MaxPeers), extra : {0}]
    \cup
    [src : Sources(url), header : {ANNOUNCE_HEADER_SIZE}, action : {1, 3},
     transaction_id : TxIds, peers : {<<"p">>}, extra : {3}]

AnnounceLen(d) ==
    IF d.header < ANNOUNCE_HEADER_SIZE THEN d.header
    ELSE ANNOUNCE_HEADER_SIZE + PEER_ENTRY_SIZE * Len(d.peers) + d.extra

(* What to_socket_addrs reports to one future: an address, or an error *)
ResolveOutcomes == {"ok", "error"}

(* rand::random(): the generator is seeded once and then runs its cycle *)
NextRandom(r) == IF r = 1 THEN 2 ELSE 1

(* peer_id of TRipClient::new: thread_rng().fill(..), then "-WM0001-" over  *)
(* the first bytes                                                          *)
PEER_ID_SIZE == 20
SIGNATURE == <<45, 87, 77, 48, 48, 48, 49, 45>>
NewPeerId(r) == [i \in 1..PEER_ID_SIZE |-> IF i <= Len(SIGNATURE) THEN SIGNATURE[i] ELSE r]

----------------------------------------------------------------------------
(* Codec *)

(* UdpSocket::bind("0.0.0.0:0"): every call yields a socket of its own; the *)
(* n-th socket the process binds is socket n.  Each exchange binds one just *)
(* before it sends its request, so the sockets bound before the k-th of the *)
(* requests being sent are those of the requests sent so far                *)
Bind(k, io) == Len(sent) + Cardinality({j \in 1..k : io[j] = "ok"})

(* The sockets the futures 1..n of a phase bind: UdpSocket::bind in connect *)
(* and in announce, reached by the futures whose name resolution succeeded  *)
Bound(kind, n, io) ==
    {[id |-> Bind(k, io), kind |-> kind, task |-> k] : k \in {j \in 1..n : io[j] = "ok"}}

(* The future `task` of a phase completes: connect, or announce, returns    *)
(* and its local `socket` is dropped                                        *)
Release_Leaks(kind, task) == sockets
Release(kind, task) == {s \in sockets : ~(s.kind = kind /\ s.task = task)}

(* ConnectRequest::new and to_bytes: the 16 bytes sent, by field, with the  *)
(* address they go to and the socket they leave from                        *)
ConnectRequest(url, tx, socket) ==
    [kind |-> "connect", to |-> ResolvedAddr(url), socket |-> socket,
     len |-> CONNECT_REQUEST_SIZE, action |-> 0, transaction_id |-> tx]

(* ConnectResponse::from_bytes on the 16-byte receive buffer, which holds   *)
(* the first Min(len, 16) bytes of the datagram; handshake calls it only    *)
(* after a receive that filled the buffer                                   *)
ConnectResponse_from_bytes(d) ==
    [action |-> d.action,
     transaction_id |-> d.transaction_id,
     connection_id |-> IF d.len >= CONNECT_RESPONSE_SIZE THEN d.connection_id ELSE 0]

(* The descriptor Trackers::announce builds for the connection conn *)
AnnounceRequestDescriptor(c, id, hash) ==
    [connection_id |-> c.connection_id, peer_id |-> id, info_hash |-> hash,
     downloaded |-> 0, left |-> 0, uploaded |-> 0, event |-> 0]

(* AnnounceRequest::new and to_bytes: the 98 bytes sent, by field.          *)
(* id_expired is no field of the request: it records whether the            *)
(* connection_id was older than CONNECTION_ID_TTL when the request left     *)
AnnounceRequest_Started(c, descriptor, tx, socket, expired) ==
    [kind |-> "announce", to |-> ResolvedAddr(c.addr), socket |-> socket,
     len |-> ANNOUNCE_REQUEST_BYTES,
     connection_id |-> descriptor.connection_id, action |-> 1, transaction_id |-> tx,
     info_hash |-> descriptor.info_hash, peer_id |-> descriptor.peer_id,
     downloaded |-> descriptor.downloaded, left |-> descriptor.left,
     uploaded |-> descriptor.uploaded, event |-> 2,
     ip_address |-> 0, num_want |-> NUM_WANT, port |-> ANNOUNCE_PORT,
     id_expired |-> expired]
AnnounceRequest(c, descriptor, tx, socket, expired) ==
    [kind |-> "announce", to |-> ResolvedAddr(c.addr), socket |-> socket,
     len |-> ANNOUNCE_REQUEST_BYTES,
     connection_id |-> descriptor.connection_id, action |-> 1, transaction_id |-> tx,
     info_hash |-> descriptor.info_hash, peer_id |-> descriptor.peer_id,
     downloaded |-> descriptor.downloaded, left |-> descriptor.left,
     uploaded |-> descriptor.uploaded, event |-> descriptor.event,
     ip_address |-> 0, num_want |-> NUM_WANT, port |-> ANNOUNCE_PORT,
     id_expired |-> expired]

(* AnnounceResponse::from_bytes(bytes, length): bytes[20..length] panics    *)
(* when length < 20, and a peer tail that is no multiple of 6 panics too    *)
AnnounceResponse_from_bytes(d, n) ==
    IF n < ANNOUNCE_HEADER_SIZE THEN [panic |-> TRUE]
    ELSE IF (n - ANNOUNCE_HEADER_SIZE) % PEER_ENTRY_SIZE # 0 THEN [panic |-> TRUE]
    ELSE [panic |-> FALSE,
          action |-> d.action,
          transaction_id |-> d.transaction_id,
          peers |-> SubSeq(d.peers, 1, (n - ANNOUNCE_HEADER_SIZE) \div PEER_ENTRY_SIZE)]

----------------------------------------------------------------------------
(* Helpers of the orchestrator *)

(* the check `tracker != addr` of both receive loops *)
FromTracker_Anyone(src, addr) == TRUE
FromTracker(src, addr) == src = addr

(* resolved.into_iter().flatten() *)
RECURSIVE Flatten(_)
Flatten(ss) == IF ss = <<>> THEN <<>> ELSE Head(ss) \o Flatten(Tail(ss))

(* flattened.retain(|i| uniques.insert(i)): keeps first occurrences *)
RECURSIVE Retain(_, _)
Retain_Everything(s, seen) == s
Retain(s, seen) ==
    IF s = <<>> THEN <<>>
    ELSE IF Head(s) \in seen THEN Retain(Tail(s), seen)
    ELSE <<Head(s)>> \o Retain(Tail(s), seen \cup {Head(s)})

(* the filter_map of Trackers::new: the Ok results, in completion order *)
RECURSIVE KeepOk(_, _)
KeepOk_AllOrNothing(done, c) ==
    IF \E k \in DOMAIN c : c[k].st # "ok" THEN <<>>
    ELSE [i \in 1..Len(done) |->
            [addr |-> trackers[done[i]], connection_id |-> c[done[i]].connection_id,
             task |-> done[i]]]
KeepOk_Everyone(done, c) ==
    [i \in 1..Len(done) |->
        [addr |-> trackers[done[i]], connection_id |-> c[done[i]].connection_id,
         task |-> done[i]]]
KeepOk(done, c) ==
    IF done = <<>> THEN <<>>
    ELSE LET k == Head(done)
         IN  (IF c[k].st = "ok"
              THEN <<[addr |-> trackers[k], connection_id |-> c[k].connection_id,
                      task |-> k]>>
              ELSE <<>>) \o KeepOk(Tail(done), c)

Waiting(f) == {k \in DOMAIN f : f[k].st = "waiting"}

(* The transaction ids the futures draw, in the order they build their      *)
(* requests; a future whose name resolution fails builds none               *)
RECURSIVE Draw(_, _, _)
Draw(k, io, r) ==
    IF k > Len(io) THEN <<>>
    ELSE IF io[k] = "ok" THEN <<r>> \o Draw(k + 1, io, NextRandom(r))
    ELSE <<0>> \o Draw(k + 1, io, r)

RECURSIVE AfterDraws(_, _, _)
AfterDraws(k, io, r) ==
    IF k > Len(io) THEN r
    ELSE AfterDraws(k + 1, io, IF io[k] = "ok" THEN NextRandom(r) ELSE r)

----------------------------------------------------------------------------
(* Magnet::from_link (magnet.rs).  A string is the sequence of its          *)
(* characters, each a one-character string.                                 *)

MaxItems == 3         \* items between the '&' of a link

MAGNET_PREFIX_SIZE == 8
XT_HEX_SIZE == 40
INFO_HASH_SIZE == 20
HEX_RADIX == 16
ASCII_SIZE == 128

(* The characters of a string as a string *)
RECURSIVE Str(_)
Str(chars) == IF chars = <<>> THEN "" ELSE Head(chars) \o Str(Tail(chars))

Rep(n, c) == [i \in 1..n |-> c]

HexLower == <<"0", "1", "2", "3", "4", "5", "6", "7", "8", "9", "a", "b", "c", "d", "e", "f">>
HexUpper == <<"A", "B", "C", "D", "E", "F">>
Alpha == {"a", "b", "c", "d", "e", "f", "g", "h", "i", "j", "k", "l", "m", "n", "o", "p", "q", "r", "s", "t", "u", "v", "w", "x", "y", "z"}

IsHex(c) == (\E i \in DOMAIN HexLower : HexLower[i] = c)
                \/ (\E i \in DOMAIN HexUpper : HexUpper[i] = c)
HexVal(c) ==
    IF \E i \in DOMAIN HexLower : HexLower[i] = c
    THEN (CHOOSE i \in DOMAIN HexLower : HexLower[i] = c) - 1
    ELSE (CHOOSE i \in DOMAIN HexUpper : HexUpper[i] = c) + 9

(* The characters a percent escape of the links modelled can stand for *)
Ascii == (38 :> "&") @@ (47 :> "/") @@ (58 :> ":") @@ (61 :> "=")

(* urlencoding::decode(link): every %XX with two hex digits becomes the     *)
(* byte XX, every other character stays, and the bytes must be UTF-8: a     *)
(* byte of 128 or more that no other escape accompanies is not.  The scan   *)
(* goes from the left, so the escape decoded next is the leftmost one       *)
IsEscape(s, i) == s[i] = "%" /\ i + 2 <= Len(s) /\ IsHex(s[i + 1]) /\ IsHex(s[i + 2])
FirstEscape(s) == CHOOSE i \in DOMAIN s : IsEscape(s, i) /\ \A j \in 1..(i - 1) : ~IsEscape(s, j)
RECURSIVE UrlDecode(_)
UrlDecode(s) ==
    IF \A i \in DOMAIN s : ~IsEscape(s, i) THEN [ok |-> TRUE, str |-> s]
    ELSE LET i == FirstEscape(s)
             byte == HexVal(s[i + 1]) * HEX_RADIX + HexVal(s[i + 2])
             rest == UrlDecode(SubSeq(s, i + 3, Len(s)))
         IN  IF byte >= ASCII_SIZE \/ ~rest.ok THEN [ok |-> FALSE]
             ELSE [ok |-> TRUE, str |-> SubSeq(s, 1, i - 1) \o <<Ascii[byte]>> \o rest.str]

(* str::split(sep): the pieces between the separators, one piece more than  *)
(* there are separators                                                     *)
First(s, sep) == CHOOSE i \in DOMAIN s : s[i] = sep /\ \A j \in 1..(i - 1) : s[j] # sep
RECURSIVE Split(_, _)
Split(s, sep) ==
    IF \A i \in DOMAIN s : s[i] # sep THEN <<s>>
    ELSE <<SubSeq(s, 1, First(s, sep) - 1)>>
             \o Split(SubSeq(s, First(s, sep) + 1, Len(s)), sep)

(* str::split_once(sep): None without a separator, else what is before and  *)
(* after the first one                                                      *)
SplitOnce(s, sep) ==
    IF \A i \in DOMAIN s : s[i] # sep THEN [some |-> FALSE]
    ELSE [some |-> TRUE, id |-> SubSeq(s, 1, First(s, sep) - 1),
          value |-> SubSeq(s, First(s, sep) + 1, Len(s))]

(* hex::decode(info_string): two hex digits a byte; an odd length or a      *)
(* character that is no hex digit is an error                               *)
RECURSIVE HexDecode(_)
HexDecode(s) ==
    IF s = <<>> THEN [ok |-> TRUE, bytes |-> <<>>]
    ELSE IF Len(s) = 1 \/ ~IsHex(s[1]) \/ ~IsHex(s[2]) THEN [ok |-> FALSE]
    ELSE LET rest == HexDecode(SubSeq(s, 3, Len(s)))
         IN  IF ~rest.ok THEN [ok |-> FALSE]
             ELSE [ok |-> TRUE,
                   bytes |-> <<HexVal(s[1]) * HEX_RADIX + HexVal(s[2])>> \o rest.bytes]

(* Url::from_str(value): an absolute URL has a scheme of letters before its *)
(* first ':'; without one the value is a relative URL and an error.  The    *)
(* host is what follows "//" up to the next '/' or ':'; http needs one      *)
Url_from_str(value) ==
    LET colon == SplitOnce(value, ":")
    IN  IF ~colon.some THEN [ok |-> FALSE]
        ELSE IF colon.id = <<>> \/ \E i \in DOMAIN colon.id : colon.id[i] \notin Alpha
        THEN [ok |-> FALSE]
        ELSE LET rest == colon.value
                 authority == IF Len(rest) >= 2 /\ rest[1] = "/" /\ rest[2] = "/"
                              THEN Head(Split(SubSeq(rest, 3, Len(rest)), "/"))
                              ELSE <<>>
                 host == Head(Split(authority, ":"))
             IN  IF Str(colon.id) = "http" /\ host = <<>> THEN [ok |-> FALSE]
                 ELSE [ok |-> TRUE, url |-> [scheme |-> Str(colon.id), host |-> Str(host)]]

(* The "tr" arm: a value that parses is pushed, another is passed over *)
PushTracker_InFront(trackers_, value) ==
    LET tracker == Url_from_str(value)
    IN  IF tracker.ok THEN <<tracker.url>> \o trackers_ ELSE trackers_
PushTracker(trackers_, value) ==
    LET tracker == Url_from_str(value)
    IN  IF tracker.ok THEN Append(trackers_, tracker.url) ELSE trackers_

(* The loop over the items of the link.  split_once(..).unwrap() panics on  *)
(* an item without '='; value[value.len() - 40..] panics on an xt value of  *)
(* less than 40 characters; hex::decode(..)? returns the error              *)
RECURSIVE ForItems(_, _)
ForItems(split, m) ==
    IF split = <<>> THEN [result |-> "Ok", magnet |-> m]
    ELSE LET pair == SplitOnce(Head(split), "=")
         IN  IF ~pair.some THEN [result |-> "panic"]
             ELSE IF pair.id = <<"x", "t">>
             THEN IF Len(pair.value) < XT_HEX_SIZE THEN [result |-> "panic"]
                  ELSE LET bytes == HexDecode(SubSeq(pair.value,
                                                     Len(pair.value) - XT_HEX_SIZE + 1,
                                                     Len(pair.value)))
                       IN  IF ~bytes.ok THEN [result |-> "Err"]
                           ELSE ForItems(Tail(split), [m EXCEPT !.info_hash = bytes.bytes])
             ELSE IF pair.id = <<"d", "n">>
             THEN ForItems(Tail(split), [m EXCEPT !.display_name = pair.value])
             ELSE IF pair.id = <<"t", "r">>
             THEN ForItems(Tail(split),
                           [m EXCEPT !.trackers = PushTracker(@, pair.value)])
             ELSE ForItems(Tail(split), m)

(* Magnet::from_link(link).  &decoded[8..] panics on a string of less than  *)
(* 8 characters                                                             *)
Magnet_from_link(link) ==
    LET decoded == UrlDecode(link)
    IN  IF ~decoded.ok THEN [result |-> "Err"]
        ELSE IF Len(decoded.str) < MAGNET_PREFIX_SIZE THEN [result |-> "panic"]
        ELSE ForItems(Split(SubSeq(decoded.str, MAGNET_PREFIX_SIZE + 1, Len(decoded.str)),
                            "&"),
                      [info_hash |-> Rep(INFO_HASH_SIZE, 0), display_name |-> <<>>,
                       trackers |-> <<>>])

(* The links handed to from_link: "magnet:?" and up to MaxItems items with  *)
(* '&' between them, or the first characters of "magnet:?" only             *)
Prefix == <<"m", "a", "g", "n", "e", "t", ":", "?">>
XtUrn == <<"x", "t", "=", "u", "r", "n", ":", "b", "t", "i", "h", ":">>
XtA == XtUrn \o Rep(XT_HEX_SIZE, "a")
XtB == XtUrn \o Rep(XT_HEX_SIZE, "1")
XtNotHex == XtUrn \o Rep(XT_HEX_SIZE - 1, "a")
XtShort == <<"x", "t", "=", "a", "a", "a", "a">>
Dn == <<"d", "n", "=", "x">>
TrUdpA == <<"t", "r", "=", "u", "d", "p", "%", "3", "A", "%", "2", "F", "%", "2", "F", "a">>
TrHttpB == <<"t", "r", "=", "h", "t", "t", "p", ":", "/", "/", "b">>
TrNoUrl == <<"t", "r", "=", "z">>
Unknown == <<"w", "s", "=", "1">>
NoUtf8 == <<"d", "n", "=", "%", "f", "f">>
TrQuery == <<"t", "r", "=", "u", "d", "p", ":", "/", "/", "a", "%", "2", "6", "w", "s", "%", "3", "D", "1">>
Items == {XtA, XtB, XtNotHex, XtShort, Dn, TrUdpA, TrHttpB, TrNoUrl, TrQuery, Unknown, NoUtf8,
          <<>>}

RECURSIVE Join(_)
Join(items) ==
    IF items = <<>> THEN <<>>
    ELSE IF Len(items) = 1 THEN Head(items)
    ELSE Head(items) \o <<"&">> \o Join(Tail(items))

Links ==
    {Prefix \o Join(items) : items \in SeqsUpTo(Items, MaxItems)}
        \cup {SubSeq(Prefix, 1, n) : n \in 0..(MAGNET_PREFIX_SIZE - 1)}

(* The links the bootstrap is started with: one per tracker list of the     *)
(* model, one whose xt is no hex, one whose xt is too short                 *)
TrItems == <<TrUdpA, TrHttpB>>
ClientLinks ==
    {Prefix \o Join(<<XtA>> \o SubSeq(TrItems, 1, n)) : n \in 0..Len(TrItems)}
        \cup {Prefix \o Join(<<TrUdpA, XtNotHex>>), Prefix \o Join(<<TrUdpA, XtShort>>)}

----------------------------------------------------------------------------
(* Initial state: TRipClient::new is called with a link *)

Init ==
    /\ pc = "start"
    /\ trackers = <<>>
    /\ elapsed = 0
    /\ conn = <<>>
    /\ connDone = <<>>
    /\ connections = <<>>
    /\ ann = <<>>
    /\ resolved = <<>>
    /\ peers = <<>>
    /\ rng = 1
    /\ issuedAt = <<>>
    /\ sent = <<>>
    /\ rx = None
    /\ peer_id = <<>>
    /\ sockets = {}
    /\ peer = None
    /\ codec = None
    /\ magnet \in [st : {"link"}, link : ClientLinks]

(* TRipClient::new up to the return of Magnet::from_link(link)?: the magnet,  *)
(* or the error returned to the caller, or the panic                        *)
MagnetFromLink ==
    /\ pc = "start"
    /\ magnet.st = "link"
    /\ LET r == Magnet_from_link(magnet.link)
       IN  /\ magnet' = IF r.result = "Ok"
                        THEN [st |-> "Ok", link |-> magnet.link,
                              info_hash |-> r.magnet.info_hash,
                              display_name |-> r.magnet.display_name,
                              trackers |-> r.magnet.trackers]
                        ELSE [st |-> r.result, link |-> magnet.link]
           /\ pc' = IF r.result = "Ok" THEN "new"
                    ELSE IF r.result = "Err" THEN "failed" ELSE "panicked"
           /\ trackers' = IF r.result = "Ok" THEN r.magnet.trackers ELSE <<>>
    /\ UNCHANGED <<elapsed, conn, connDone, connections, ann, resolved, peers, rng,
                   issuedAt, sent, rx, peer, codec, peer_id, sockets>>

(* Trackers::new up to the first Pending of every future: each future       *)
(* resolves the tracker's name, binds a socket and sends its ConnectRequest *)
(* (TrackerConnection::connect and the head of handshake)                   *)
RECURSIVE ConnectRequests(_, _, _)
ConnectRequests(k, tx, io) ==
    IF k > Len(trackers) THEN <<>>
    ELSE (IF io[k] = "ok" THEN <<ConnectRequest(trackers[k], tx[k], Bind(k, io))>>
          ELSE <<>>)
         \o ConnectRequests(k + 1, tx, io)

RECURSIVE Failed(_, _)
Failed(k, io) ==
    IF k > Len(io) THEN <<>>
    ELSE (IF io[k] = "ok" THEN <<>> ELSE <<k>>) \o Failed(k + 1, io)

TrackersNew ==
    /\ pc = "new"
    /\ \E io \in [1..Len(trackers) -> ResolveOutcomes] :
        LET tx == Draw(1, io, rng)
        IN  /\ conn' = [k \in 1..Len(trackers) |->
                          IF io[k] = "ok"
                          THEN [st |-> "waiting", transaction_id |-> tx[k],
                                connection_id |-> 0, err |-> "", at |-> 0]
                          ELSE [st |-> "err", transaction_id |-> 0,
                                connection_id |-> 0, err |-> "Io", at |-> 0]]
            /\ connDone' = Failed(1, io)
            /\ sent' = sent \o ConnectRequests(1, tx, io)
            /\ rng' = AfterDraws(1, io, rng)
            /\ sockets' = sockets \cup Bound("connect", Len(trackers), io)
    /\ pc' = "connecting"
    /\ elapsed' = 0
    /\ rx' = None
    /\ UNCHANGED <<trackers, connections, ann, resolved, peers, issuedAt, peer, codec, magnet, peer_id>>

(* One iteration of the receive loop of TrackerConnection::handshake, and   *)
(* what follows the loop when it breaks                                     *)
HandshakeStep_AnyTransaction(f, url, d) ==
    LET n == Min(d.len, CONNECT_RESPONSE_SIZE)
        response == ConnectResponse_from_bytes(d)
    IN  IF ~FromTracker(d.src, ResolvedAddr(url)) THEN f
        ELSE IF n # CONNECT_RESPONSE_SIZE
        THEN [f EXCEPT !.st = "err", !.err = "BadSize"]
        ELSE [f EXCEPT !.st = "ok", !.connection_id = response.connection_id,
                       !.at = elapsed]
HandshakeStep(f, url, d) ==
    LET n == Min(d.len, CONNECT_RESPONSE_SIZE)
        response == ConnectResponse_from_bytes(d)
    IN  IF ~FromTracker(d.src, ResolvedAddr(url)) THEN f
        ELSE IF n # CONNECT_RESPONSE_SIZE
        THEN [f EXCEPT !.st = "err", !.err = "BadSize"]
        ELSE IF response.transaction_id # f.transaction_id
        THEN [f EXCEPT !.st = "err", !.err = "TxMismatch"]
        ELSE [f EXCEPT !.st = "ok", !.connection_id = response.connection_id,
                       !.at = elapsed]

HandshakeRecv(k, d) ==
    /\ pc = "connecting"
    /\ k \in Waiting(conn)
    /\ conn' = [conn EXCEPT ![k] = HandshakeStep(conn[k], trackers[k], d)]
    /\ connDone' = IF conn'[k].st = "waiting" THEN connDone ELSE Append(connDone, k)
    /\ rx' = [task |-> k, kind |-> "connect", d |-> d]
    /\ sockets' = IF conn'[k].st = "waiting" THEN sockets ELSE Release("connect", k)
    /\ UNCHANGED <<pc, trackers, elapsed, connections, ann, resolved, peers, rng, issuedAt, sent, peer, codec, magnet, peer_id>>

(* future::timeout(3 s) around the receive loop elapses *)
HandshakeTimeout(k) ==
    /\ pc = "connecting"
    /\ k \in Waiting(conn)
    /\ elapsed >= TIMEOUT_SECS
    /\ conn' = [conn EXCEPT ![k] = [@ EXCEPT !.st = "err", !.err = "TimedOut",
                                             !.at = elapsed]]
    /\ connDone' = Append(connDone, k)
    /\ sockets' = Release("connect", k)
    /\ rx' = None
    /\ UNCHANGED <<pc, trackers, elapsed, connections, ann, resolved, peers, rng, issuedAt, sent, peer, codec, magnet, peer_id>>

(* A second passes while some future awaits a datagram *)
Tick ==
    /\ \/ pc = "connecting" /\ Waiting(conn) # {}
       \/ pc = "announcing" /\ Waiting(ann) # {}
    /\ elapsed < TIMEOUT_SECS
    /\ elapsed' = elapsed + 1
    /\ rx' = None
    /\ UNCHANGED <<pc, trackers, conn, connDone, connections, ann, resolved, peers, rng,
                   issuedAt, sent, peer, codec, magnet, peer_id, sockets>>

(* Trackers::new once every future has completed: the filter_map keeps the  *)
(* Ok results and drops the errors; the futures are gone, and conn keeps    *)
(* only how each ended (history)                                            *)
TrackersNewReturn_NoBarrier ==
    /\ pc = "connecting"
    /\ connections' = KeepOk(connDone, conn)
    /\ issuedAt' = [i \in 1..Len(connections') |-> conn[connections'[i].task].at]
    /\ conn' = [k \in DOMAIN conn |->
                  [st |-> conn[k].st, transaction_id |-> 0,
                   connection_id |-> conn[k].connection_id, err |-> conn[k].err,
                   at |-> 0]]
    /\ connDone' = <<>>
    /\ pc' = "connected"
    /\ rx' = None
    /\ UNCHANGED <<trackers, elapsed, ann, resolved, peers, rng, sent, peer, codec, magnet, peer_id, sockets>>
TrackersNewReturn ==
    /\ pc = "connecting"
    /\ Waiting(conn) = {}
    /\ connections' = KeepOk(connDone, conn)
    /\ issuedAt' = [i \in 1..Len(connections') |-> conn[connections'[i].task].at]
    /\ conn' = [k \in DOMAIN conn |->
                  [st |-> conn[k].st, transaction_id |-> 0,
                   connection_id |-> conn[k].connection_id, err |-> conn[k].err,
                   at |-> 0]]
    /\ connDone' = <<>>
    /\ pc' = "connected"
    /\ rx' = None
    /\ UNCHANGED <<trackers, elapsed, ann, resolved, peers, rng, sent, peer, codec, magnet, peer_id, sockets>>

(* TRipClient::new makes its peer_id, 20 random bytes of which the first 8  *)
(* are overwritten with the signature "-WM0001-", and calls                 *)
(* Trackers::announce.                                                       *)
(* Trackers::announce up to the first Pending of every future: each future  *)
(* resolves the tracker's name (blocking), binds a socket and sends its     *)
(* AnnounceRequest with the connection_id stored in the connection.  `delay`*)
(* is the time the blocking resolution takes before the requests leave.     *)
AnnounceRequests(cs, tx, io, delay, id, hash) ==
    LET one(i) == IF io[i] = "ok"
                  THEN <<AnnounceRequest(cs[i], AnnounceRequestDescriptor(cs[i], id, hash),
                            tx[i], Bind(i, io),
                            (elapsed - issuedAt[i]) + delay > CONNECTION_ID_TTL)>>
                  ELSE <<>>
        F[i \in 0..Len(cs)] == IF i = 0 THEN <<>> ELSE F[i - 1] \o one(i)
    IN  F[Len(cs)]

TrackersAnnounce(delay) ==
    /\ pc = "connected"
    /\ peer_id' = NewPeerId(rng)
    /\ \E io \in [1..Len(connections) -> ResolveOutcomes] :
        LET tx == Draw(1, io, NextRandom(rng))
        IN  /\ ann' = [i \in 1..Len(connections) |->
                         IF io[i] = "ok"
                         THEN [st |-> "waiting", transaction_id |-> tx[i],
                               peers |-> <<>>, err |-> ""]
                         ELSE [st |-> "err", transaction_id |-> 0,
                               peers |-> <<>>, err |-> "Io"]]
            /\ sent' = sent \o AnnounceRequests(connections, tx, io, delay, peer_id',
                                                magnet.info_hash)
            /\ rng' = AfterDraws(1, io, NextRandom(rng))
            /\ sockets' = sockets \cup Bound("announce", Len(connections), io)
    /\ pc' = "announcing"
    /\ elapsed' = 0
    /\ issuedAt' = <<>>
    /\ rx' = None
    /\ UNCHANGED <<trackers, conn, connDone, connections, resolved, peers, peer, codec, magnet>>

(* One iteration of the receive loop of TrackerConnection::announce, and    *)
(* what follows the loop when it breaks.  A panic unwinds block_on and      *)
(* drops the FuturesUnordered with every future and its socket              *)
AnnounceStep(f, url, d) ==
    LET n == Min(AnnounceLen(d), ANNOUNCE_BUFFER_SIZE)
        response == AnnounceResponse_from_bytes(d, n)
    IN  IF ~FromTracker(d.src, ResolvedAddr(url)) THEN f
        ELSE IF response.panic
        THEN [f EXCEPT !.st = "panic"]
        ELSE IF response.transaction_id # f.transaction_id
        THEN [f EXCEPT !.st = "err", !.err = "TxMismatch"]
        ELSE [f EXCEPT !.st = "ok", !.peers = response.peers]

AnnounceRecv(i, d) ==
    /\ pc = "announcing"
    /\ i \in Waiting(ann)
    /\ ann' = [ann EXCEPT ![i] = AnnounceStep(ann[i], connections[i].addr, d)]
    /\ resolved' = IF ann'[i].st = "ok" THEN Append(resolved, ann'[i].peers) ELSE resolved
    /\ pc' = IF ann'[i].st = "panic" THEN "panicked" ELSE pc
    /\ rx' = [task |-> i, kind |-> "announce", d |-> d]
    /\ sockets' = IF ann'[i].st = "waiting" THEN sockets
                ELSE IF ann'[i].st = "panic" THEN {}
                ELSE Release("announce", i)
    /\ UNCHANGED <<trackers, elapsed, conn, connDone, connections, peers, rng, issuedAt, sent, peer, codec, magnet, peer_id>>

(* future::timeout(3 s) around the receive loop elapses *)
AnnounceTimeout(i) ==
    /\ pc = "announcing"
    /\ i \in Waiting(ann)
    /\ elapsed >= TIMEOUT_SECS
    /\ ann' = [ann EXCEPT ![i] = [@ EXCEPT !.st = "err", !.err = "TimedOut"]]
    /\ sockets' = Release("announce", i)
    /\ rx' = None
    /\ UNCHANGED <<pc, trackers, elapsed, conn, connDone, connections, resolved, peers, rng,
                   issuedAt, sent, peer, codec, magnet, peer_id>>

(* Trackers::announce once every future has completed: flatten, then keep   *)
(* the first occurrence of every address; TRipClient::new returns           *)
TrackersAnnounceReturn ==
    /\ pc = "announcing"
    /\ Waiting(ann) = {}
    /\ peers' = Retain(Flatten(resolved), {})
    /\ pc' = "done"
    /\ rx' = None
    /\ UNCHANGED <<trackers, elapsed, conn, connDone, connections, ann, resolved, rng,
                   issuedAt, sent, peer, codec, magnet, peer_id, sockets>>

Next ==
    \/ MagnetFromLink
    \/ TrackersNew
    \/ \E k \in DOMAIN conn : \E d \in ConnectDatagrams(trackers[k]) : HandshakeRecv(k, d)
    \/ \E k \in DOMAIN conn : HandshakeTimeout(k)
    \/ Tick
    \/ TrackersNewReturn
    \/ TrackersAnnounce(0)
    \/ \E i \in DOMAIN ann : \E d \in AnnounceDatagrams(connections[i].addr) : AnnounceRecv(i, d)
    \/ \E i \in DOMAIN ann : AnnounceTimeout(i)
    \/ TrackersAnnounceReturn

Spec == Init /\ [][Next]_vars

(* The same program where the name resolution of Trackers::announce, a      *)
(* blocking call without a timeout, may take SlowResolve seconds            *)
NextSlow ==
    \/ Next
    \/ TrackersAnnounce(SlowResolve)

SpecSlow == Init /\ [][NextSlow]_vars

(* The program under the scheduling of its executor, from the parsed link   *)
(* on: block_on polls every ready future, so a step of Trackers::new and of *)
(* Trackers::announce that can be taken is taken; time passes, and the      *)
(* timer of future::timeout, polled whenever recv_from is Pending, ends the *)
(* wait of a future once its 3 s are over.  Nothing is assumed of the       *)
(* trackers and of the other senders: they may answer, answer anything,     *)
(* never answer, or keep sending                                            *)
Tasks == 1..Len(TrItems)
Fairness ==
    /\ WF_vars(TrackersNew)
    /\ WF_vars(Tick)
    /\ \A k \in Tasks : WF_vars(k \in DOMAIN conn /\ HandshakeTimeout(k))
    /\ WF_vars(TrackersNewReturn)
    /\ WF_vars(TrackersAnnounce(0))
    /\ \A i \in Tasks : WF_vars(i \in DOMAIN ann /\ AnnounceTimeout(i))
    /\ WF_vars(TrackersAnnounceReturn)

SpecFair == Init /\ [][Next]_vars /\ Fairness

(* Magnet::from_link alone, on every link of Links *)
InitMagnet ==
    /\ pc = "start"
    /\ trackers = <<>>
    /\ elapsed = 0
    /\ conn = <<>>
    /\ connDone = <<>>
    /\ connections = <<>>
    /\ ann = <<>>
    /\ resolved = <<>>
    /\ peers = <<>>
    /\ rng = 1
    /\ issuedAt = <<>>
    /\ sent = <<>>
    /\ rx = None
    /\ peer_id = <<>>
    /\ sockets = {}
    /\ peer = None
    /\ codec = None
    /\ magnet \in [st : {"link"}, link : Links]

NextMagnet == MagnetFromLink

SpecMagnet == InitMagnet /\ [][NextMagnet]_vars

----------------------------------------------------------------------------
(* The peer wire codec (messages.rs).  A byte string is a sequence of       *)
(* numbers 0..255.                                                          *)

HANDSHAKE_FIXED_SIZE == 49
RESERVED_SIZE == 8
HASH_SIZE == 20
BYTE == 256

Bytes(n, b) == [i \in 1..n |-> b]

Panic == [panic |-> TRUE]

(* BigEndian::write_int(buf, n, 1): the low byte of n *)
WriteInt1(n) == n % BYTE

(* BigEndian::read_uint(buf, nbytes): the big-endian value of the first     *)
(* nbytes bytes                                                             *)
RECURSIVE ReadUint(_, _)
ReadUint(buf, nbytes) ==
    IF nbytes = 0 THEN 0 ELSE ReadUint(buf, nbytes - 1) * BYTE + buf[nbytes]

(* BigEndian::read_int(buf, nbytes): read_uint sign-extended from nbytes    *)
(* bytes to i64.  With the top bit set the value is u - 256^nbytes, written *)
(* here as (u without its top bit) - (256^nbytes / 2 - 1) - 1               *)
ReadInt(buf, nbytes) ==
    IF buf[1] >= BYTE \div 2
    THEN ReadUint([buf EXCEPT ![1] = @ - BYTE \div 2], nbytes)
             - ReadUint([i \in 1..nbytes |-> IF i = 1 THEN BYTE \div 2 - 1 ELSE BYTE - 1],
                        nbytes) - 1
    ELSE ReadUint(buf, nbytes)

(* HandShake::to_bytes.  copy_from_slice panics when the two slices differ  *)
(* in length, which they do when info_hash or peer_id is not 20 bytes long  *)
HandShake_to_bytes(h) ==
    IF Len(h.info_hash) # HASH_SIZE \/ Len(h.peer_id) # HASH_SIZE THEN Panic
    ELSE [panic |-> FALSE,
          bytes |-> <<WriteInt1(Len(h.pstr))>> \o h.pstr \o Bytes(RESERVED_SIZE, 0)
                        \o h.info_hash \o h.peer_id]

(* HandShake::from_bytes.  pstrlen is read_int(bytes, 1) as usize: a        *)
(* negative i64 becomes a usize of at least 2^64 - 128, so that end_pstr    *)
(* either overflows or lies beyond the end of every slice, and indexing     *)
(* bytes[1..end_pstr] panics; so does every index range that ends beyond    *)
(* the slice                                                                *)
HandShake_from_bytes(bytes) ==
    IF Len(bytes) < 1 THEN Panic
    ELSE LET pstrlen == ReadInt(bytes, 1)
             end_pstr == pstrlen + 1
             end_reserved == end_pstr + RESERVED_SIZE
             end_info_hash == end_reserved + HASH_SIZE
             end_peer_id == end_info_hash + HASH_SIZE
         IN  IF pstrlen < 0 \/ end_peer_id > Len(bytes) THEN Panic
             ELSE [panic |-> FALSE,
                   h |-> [pstr |-> SubSeq(bytes, 2, end_pstr),
                          info_hash |-> SubSeq(bytes, end_reserved + 1, end_info_hash),
                          peer_id |-> SubSeq(bytes, end_info_hash + 1, end_peer_id)]]

(* RawMessage::from(&[u8]) *)
RawMessage_from_IdInPayload(bytes) ==
    IF Len(bytes) = 0 THEN [message_id |-> 0, payload |-> <<>>]
    ELSE [message_id |-> ReadInt(bytes, 1) % BYTE, payload |-> bytes]
RawMessage_from(bytes) ==
    IF Len(bytes) = 0 THEN [message_id |-> 0, payload |-> <<>>]
    ELSE [message_id |-> ReadInt(bytes, 1) % BYTE, payload |-> Tail(bytes)]

(* The HandShake records carried through the codec: protocol strings of 0,  *)
(* 1, 2, 19, 127, 128, 200 and 255 bytes                                    *)
PStrLens == {0, 1, 2, 19, 127, 128, 200, 255}
PStrs == {Bytes(n, 80) : n \in PStrLens} \cup {<<80, 81>>}
Hashes == {Bytes(HASH_SIZE, 1), Bytes(HASH_SIZE, 3)}
PeerIds == {Bytes(HASH_SIZE, 2), Bytes(HASH_SIZE, 4)}
HandShakes == [pstr : PStrs, info_hash : Hashes, peer_id : PeerIds]

InitCodec ==
    /\ pc = "codec"
    /\ trackers = <<>>
    /\ elapsed = 0
    /\ conn = <<>>
    /\ connDone = <<>>
    /\ connections = <<>>
    /\ ann = <<>>
    /\ resolved = <<>>
    /\ peers = <<>>
    /\ rng = 1
    /\ issuedAt = <<>>
    /\ sent = <<>>
    /\ rx = None
    /\ peer_id = <<>>
    /\ sockets = {}
    /\ peer = None
    /\ magnet = None
    /\ codec \in [st : {"record"}, h : HandShakes]

trackerVars == <<pc, trackers, elapsed, conn, connDone, connections, ann, resolved, peers,
                 rng, issuedAt, sent, rx, peer_id, sockets>>

(* handshake.to_bytes() *)
Encode ==
    /\ pc = "codec"
    /\ codec.st = "record"
    /\ LET e == HandShake_to_bytes(codec.h)
       IN  codec' = IF e.panic THEN [st |-> "panicked", h |-> codec.h]
                    ELSE [st |-> "bytes", h |-> codec.h, bytes |-> e.bytes]
    /\ UNCHANGED <<trackerVars, peer, magnet>>

(* HandShake::from_bytes(&bytes) *)
Decode ==
    /\ pc = "codec"
    /\ codec.st = "bytes"
    /\ LET d == HandShake_from_bytes(codec.bytes)
       IN  codec' = IF d.panic THEN [st |-> "panicked", h |-> codec.h, bytes |-> codec.bytes]
                    ELSE [st |-> "decoded", h |-> codec.h, bytes |-> codec.bytes,
                          out |-> d.h]
    /\ UNCHANGED <<trackerVars, peer, magnet>>

NextCodec == Encode \/ Decode

SpecCodec == InitCodec /\ [][NextCodec]_vars

(* enum MessageTypes, in the order of its discriminants 0..9 *)
MessageTypes == <<"Choke", "Unchoke", "Interested", "NotInterested", "Have", "Bitfield",
                  "Request", "Piece", "Cancel", "Port">>

(* MessageTypes::from(value: u8) *)
MessageTypes_from(value) ==
    CASE value = 1 -> [panic |-> FALSE, type |-> "Unchoke"]
      [] value = 2 -> [panic |-> FALSE, type |-> "Interested"]
      [] value = 3 -> [panic |-> FALSE, type |-> "NotInterested"]
      [] value = 4 -> [panic |-> FALSE, type |-> "Have"]
      [] value = 5 -> [panic |-> FALSE, type |-> "Bitfield"]
      [] value = 6 -> [panic |-> FALSE, type |-> "Request"]
      [] value = 7 -> [panic |-> FALSE, type |-> "Piece"]
      [] value = 8 -> [panic |-> FALSE, type |-> "Cancel"]
      [] value = 9 -> [panic |-> FALSE, type |-> "Port"]
      [] OTHER -> Panic

(* Every u8 carried through MessageTypes::from *)
InitTypes ==
    /\ pc = "types"
    /\ trackers = <<>>
    /\ elapsed = 0
    /\ conn = <<>>
    /\ connDone = <<>>
    /\ connections = <<>>
    /\ ann = <<>>
    /\ resolved = <<>>
    /\ peers = <<>>
    /\ rng = 1
    /\ issuedAt = <<>>
    /\ sent = <<>>
    /\ rx = None
    /\ peer_id = <<>>
    /\ sockets = {}
    /\ peer = None
    /\ magnet = None
    /\ codec \in [st : {"id"}, value : 0..(BYTE - 1)]

(* MessageTypes::from(value) *)
Convert ==
    /\ pc = "types"
    /\ codec.st = "id"
    /\ LET t == MessageTypes_from(codec.value)
       IN  codec' = IF t.panic THEN [st |-> "panicked", value |-> codec.value]
                    ELSE [st |-> "type", value |-> codec.value, type |-> t.type]
    /\ UNCHANGED <<trackerVars, peer, magnet>>

NextTypes == Convert

SpecTypes == InitTypes /\ [][NextTypes]_vars

----------------------------------------------------------------------------
(* The decoders of the tracker records on bytes (tracker_stream.rs), and    *)
(* HandShake::from_bytes, each applied to whole and to cut inputs           *)

MaxEntries == 2       \* peer entries in the bytes of one ANNOUNCE response

U32_SIZE == 4
I64_SIZE == 8
IP_SIZE == 4

(* bytes[from..to] of Rust, from and to counted from 0: it panics when the  *)
(* range is not within the slice, which the callers below test with InRange *)
InRange(bytes, from, to) == from <= to /\ to <= Len(bytes)
Slice(bytes, from, to) == SubSeq(bytes, from + 1, to)

(* ConnectResponse::from_bytes(bytes) *)
ConnectResponse_from_slice(bytes) ==
    IF ~InRange(bytes, U32_SIZE + U32_SIZE, CONNECT_RESPONSE_SIZE) THEN Panic
    ELSE [panic |-> FALSE,
          record |-> [action |-> ReadUint(Slice(bytes, 0, U32_SIZE), U32_SIZE),
                      transaction_id |->
                          ReadUint(Slice(bytes, U32_SIZE, U32_SIZE + U32_SIZE), U32_SIZE),
                      connection_id |->
                          ReadInt(Slice(bytes, U32_SIZE + U32_SIZE, CONNECT_RESPONSE_SIZE),
                                  I64_SIZE)]]

(* The loop over peer_list.chunks(6): IPv4 address and big-endian port of   *)
(* every chunk                                                              *)
PeerOf(address) ==
    [ip |-> Slice(address, 0, IP_SIZE),
     port |-> ReadUint(Slice(address, IP_SIZE, PEER_ENTRY_SIZE), PEER_ENTRY_SIZE - IP_SIZE)]
Chunks(peer_list) ==
    [i \in 1..(Len(peer_list) \div PEER_ENTRY_SIZE) |->
        Slice(peer_list, (i - 1) * PEER_ENTRY_SIZE, i * PEER_ENTRY_SIZE)]

(* AnnounceResponse::from_bytes(bytes, length) *)
AnnounceResponse_from_slice_WholeBuffer(bytes, length) ==
    IF ~InRange(bytes, ANNOUNCE_HEADER_SIZE, length) THEN Panic
    ELSE LET peer_list == Slice(bytes, ANNOUNCE_HEADER_SIZE, Len(bytes))
         IN  IF Len(peer_list) % PEER_ENTRY_SIZE # 0 THEN Panic
             ELSE [panic |-> FALSE,
                   record |-> [action |-> ReadUint(Slice(bytes, 0, U32_SIZE), U32_SIZE),
                               transaction_id |->
                                   ReadUint(Slice(bytes, U32_SIZE, U32_SIZE + U32_SIZE),
                                            U32_SIZE),
                               peers |-> [i \in DOMAIN Chunks(peer_list) |->
                                             PeerOf(Chunks(peer_list)[i])]]]
AnnounceResponse_from_slice(bytes, length) ==
    IF ~InRange(bytes, ANNOUNCE_HEADER_SIZE, length) THEN Panic
    ELSE LET peer_list == Slice(bytes, ANNOUNCE_HEADER_SIZE, length)
         IN  IF Len(peer_list) % PEER_ENTRY_SIZE # 0 THEN Panic
             ELSE [panic |-> FALSE,
                   record |-> [action |-> ReadUint(Slice(bytes, 0, U32_SIZE), U32_SIZE),
                               transaction_id |->
                                   ReadUint(Slice(bytes, U32_SIZE, U32_SIZE + U32_SIZE),
                                            U32_SIZE),
                               peers |-> [i \in DOMAIN Chunks(peer_list) |->
                                             PeerOf(Chunks(peer_list)[i])]]]

(* The inputs.  A field of n bytes holding a value below 256 *)
Field(n, v) == [i \in 1..n |-> IF i = n THEN v ELSE 0]

(* CONNECT responses as a tracker writes them, and with 4 bytes more *)
ConnectResponses ==
    {Field(U32_SIZE, a) \o Field(U32_SIZE, t) \o Field(I64_SIZE, c) \o more :
        a \in {0, 3}, t \in TxIds, c \in ConnIds, more \in {<<>>, Bytes(U32_SIZE, 5)}}

(* ANNOUNCE responses as a tracker writes them: the header of five u32 and  *)
(* up to MaxEntries peer entries                                            *)
Entries == {<<10, 0, 0, 1, 26, 225>>, <<192, 168, 1, 2, 0, 80>>, <<1, 2, 3, 4, 255, 254>>}
AnnounceResponses ==
    {Field(U32_SIZE, a) \o Field(U32_SIZE, t) \o Field(U32_SIZE, 30) \o Field(U32_SIZE, 0)
         \o Field(U32_SIZE, 2) \o Flatten(es) :
        a \in {1, 3}, t \in TxIds, es \in SeqsUpTo(Entries, MaxEntries)}

(* What recv_from left in the buffer behind the datagram: nothing the       *)
(* decoder may look at                                                      *)
Stale == {<<>>, <<9, 9, 9, 9, 9, 9>>}

(* The lengths an input is cut to: its own, and less *)
Cuts(bytes) == {n \in {0, 1, 8, 15, ANNOUNCE_HEADER_SIZE + 3, Len(bytes) - 3, Len(bytes)} :
                   0 <= n /\ n <= Len(bytes)}

WireHandShakes == {h \in HandShakes : Len(h.pstr) <= 2 /\ h.peer_id = Bytes(HASH_SIZE, 2)}

WireInputs ==
    UNION {{[st |-> "input", decoder |-> "ConnectResponse", bytes |-> SubSeq(b, 1, n),
             length |-> n] : n \in Cuts(b)} : b \in ConnectResponses}
    \cup
    UNION {{[st |-> "input", decoder |-> "AnnounceResponse", bytes |-> SubSeq(b, 1, n) \o x,
             length |-> n] : n \in Cuts(b), x \in Stale} : b \in AnnounceResponses}
    \cup
    UNION {{[st |-> "input", decoder |-> "HandShake",
             bytes |-> SubSeq(HandShake_to_bytes(h).bytes, 1, n), length |-> n] :
               n \in Cuts(HandShake_to_bytes(h).bytes)} : h \in WireHandShakes}

InitWire ==
    /\ pc = "wire"
    /\ trackers = <<>>
    /\ elapsed = 0
    /\ conn = <<>>
    /\ connDone = <<>>
    /\ connections = <<>>
    /\ ann = <<>>
    /\ resolved = <<>>
    /\ peers = <<>>
    /\ rng = 1
    /\ issuedAt = <<>>
    /\ sent = <<>>
    /\ rx = None
    /\ peer_id = <<>>
    /\ sockets = {}
    /\ peer = None
    /\ magnet = None
    /\ codec \in WireInputs

(* What a decoder call leaves: the record, or the panic *)
Decoded(input, d) ==
    IF d.panic THEN [input EXCEPT !.st = "panicked"]
    ELSE [st |-> "decoded", decoder |-> input.decoder, bytes |-> input.bytes,
          length |-> input.length, out |-> d.record]

(* ConnectResponse::from_bytes(&bytes) *)
DecodeConnectResponse ==
    /\ pc = "wire"
    /\ codec.st = "input"
    /\ codec.decoder = "ConnectResponse"
    /\ codec' = Decoded(codec, ConnectResponse_from_slice(codec.bytes))
    /\ UNCHANGED <<trackerVars, peer, magnet>>

(* AnnounceResponse::from_bytes(&bytes, length) *)
DecodeAnnounceResponse ==
    /\ pc = "wire"
    /\ codec.st = "input"
    /\ codec.decoder = "AnnounceResponse"
    /\ codec' = Decoded(codec, AnnounceResponse_from_slice(codec.bytes, codec.length))
    /\ UNCHANGED <<trackerVars, peer, magnet>>

(* HandShake::from_bytes(&bytes) *)
DecodeHandShake ==
    /\ pc = "wire"
    /\ codec.st = "input"
    /\ codec.decoder = "HandShake"
    /\ LET d == HandShake_from_bytes(codec.bytes)
       IN  codec' = Decoded(codec, IF d.panic THEN Panic
                                   ELSE [panic |-> FALSE, record |-> d.h])
    /\ UNCHANGED <<trackerVars, peer, magnet>>

NextWire == DecodeConnectResponse \/ DecodeAnnounceResponse \/ DecodeHandShake

SpecWire == InitWire /\ [][NextWire]_vars

----------------------------------------------------------------------------
(* One peer session (peer_stream.rs): PeerStream::connect, then             *)
(* PeerStream::read any number of times.  The TCP stream is modelled by the *)
(* bytes the remote sends before it closes its side.                        *)

MaxFrames == 2        \* whole frames the remote sends after its handshake
LENGTH_PREFIX_SIZE == 4

RECURSIVE Concat(_)
Concat(ss) == IF ss = <<>> THEN <<>> ELSE Head(ss) \o Concat(Tail(ss))

(* opts of the call: a 2-byte and a 128-byte protocol string *)
Protocols == {<<80, 81>>, Bytes(BYTE \div 2, 80)}
Opts == [protocol : Protocols, info_hash : {Bytes(HASH_SIZE, 1)},
         peer_id : {Bytes(HASH_SIZE, 2)}]

(* The handshakes the remote may answer with: the requester's pstr, one of  *)
(* the same length that differs in its last byte, one a byte shorter, one a *)
(* byte longer; the requester's info_hash or another; the requester's       *)
(* peer_id or another                                                       *)
RemotePStrs(p) ==
    {p, [p EXCEPT ![Len(p)] = 82], SubSeq(p, 1, Len(p) - 1), Append(p, 82)}
RemoteHandShakes(opts) ==
    [pstr : RemotePStrs(opts.protocol), info_hash : Hashes, peer_id : PeerIds]

(* The whole frames the remote may send: a keep-alive, a Choke, a message   *)
(* with a 3-byte payload, a message whose id has its top bit set            *)
Frames == {<<0, 0, 0, 0>>, <<0, 0, 0, 1, 0>>, <<0, 0, 0, 4, 1, 2, 2, 4>>,
           <<0, 0, 0, 2, 200, 7>>}

(* What the remote may send last before it closes: nothing, half a length   *)
(* prefix, a frame cut short, a length prefix with its top bit set          *)
Tails == {<<>>, <<0, 0>>, <<0, 0, 0, 3, 1>>, <<128, 0, 0, 1, 9>>}

(* read_exact(&mut buf) on the stream: Ok with the first n bytes, or, when  *)
(* the remote closed before n bytes came, an error after the bytes that did *)
(* come were taken from the stream                                          *)
ReadExact(stream, n) ==
    IF Len(stream) >= n
    THEN [ok |-> TRUE, bytes |-> SubSeq(stream, 1, n),
          rest |-> SubSeq(stream, n + 1, Len(stream))]
    ELSE [ok |-> FALSE, bytes |-> stream, rest |-> <<>>]

(* PeerStream::handshake(stream, opts); wrote tells whether write_all     *)
(* succeeds on the connection                                              *)
PeerHandshake_ReadsOneMore(stream, opts, wrote) ==
    LET request_handshake == [pstr |-> opts.protocol, info_hash |-> opts.info_hash,
                              peer_id |-> opts.peer_id]
        request == HandShake_to_bytes(request_handshake)
        read == ReadExact(stream, Len(request.bytes) + 1)
        response == HandShake_from_bytes(read.bytes)
    IN  IF request.panic THEN [st |-> "panicked", written |-> <<>>, rest |-> stream]
        ELSE IF ~wrote
        THEN [st |-> "failed", err |-> "WriteHandshake", written |-> <<>>,
              rest |-> stream]
        ELSE IF ~read.ok
        THEN [st |-> "failed", err |-> "ReadHandshake", written |-> request.bytes,
              rest |-> read.rest]
        ELSE IF response.panic
        THEN [st |-> "panicked", written |-> request.bytes, rest |-> read.rest]
        ELSE IF request_handshake.pstr # response.h.pstr
        THEN [st |-> "failed", err |-> "BadProtocol", written |-> request.bytes,
              rest |-> read.rest]
        ELSE IF request_handshake.info_hash # response.h.info_hash
        THEN [st |-> "failed", err |-> "BadInfoHash", written |-> request.bytes,
              rest |-> read.rest]
        ELSE [st |-> "session", handshake |-> response.h, written |-> request.bytes,
              rest |-> read.rest]
PeerHandshake(stream, opts, wrote) ==
    LET request_handshake == [pstr |-> opts.protocol, info_hash |-> opts.info_hash,
                              peer_id |-> opts.peer_id]
        request == HandShake_to_bytes(request_handshake)
        read == ReadExact(stream, Len(request.bytes))
        response == HandShake_from_bytes(read.bytes)
    IN  IF request.panic THEN [st |-> "panicked", written |-> <<>>, rest |-> stream]
        ELSE IF ~wrote
        THEN [st |-> "failed", err |-> "WriteHandshake", written |-> <<>>,
              rest |-> stream]
        ELSE IF ~read.ok
        THEN [st |-> "failed", err |-> "ReadHandshake", written |-> request.bytes,
              rest |-> read.rest]
        ELSE IF response.panic
        THEN [st |-> "panicked", written |-> request.bytes, rest |-> read.rest]
        ELSE IF request_handshake.pstr # response.h.pstr
        THEN [st |-> "failed", err |-> "BadProtocol", written |-> request.bytes,
              rest |-> read.rest]
        ELSE IF request_handshake.info_hash # response.h.info_hash
        THEN [st |-> "failed", err |-> "BadInfoHash", written |-> request.bytes,
              rest |-> read.rest]
        ELSE [st |-> "session", handshake |-> response.h, written |-> request.bytes,
              rest |-> read.rest]

(* PeerStream::read_message(stream).  A length whose i64 is negative is, as *)
(* usize, more than a Vec can hold: vec![0u8; length] panics                *)
ReadMessage_AlwaysReadsId(stream) ==
    LET length_read == ReadExact(stream, LENGTH_PREFIX_SIZE)
        length == ReadInt(length_read.bytes, LENGTH_PREFIX_SIZE)
        message_read == ReadExact(length_read.rest, IF length = 0 THEN 1 ELSE length)
    IN  IF ~length_read.ok
        THEN [result |-> "ReadLength", rest |-> length_read.rest]
        ELSE IF length < 0
        THEN [result |-> "panic", rest |-> length_read.rest]
        ELSE IF ~message_read.ok
        THEN [result |-> "ReadMessage", rest |-> message_read.rest]
        ELSE [result |-> "ok", message |-> RawMessage_from(message_read.bytes),
              rest |-> message_read.rest]
ReadMessage(stream) ==
    LET length_read == ReadExact(stream, LENGTH_PREFIX_SIZE)
        length == ReadInt(length_read.bytes, LENGTH_PREFIX_SIZE)
        message_read == ReadExact(length_read.rest, length)
    IN  IF ~length_read.ok
        THEN [result |-> "ReadLength", rest |-> length_read.rest]
        ELSE IF length < 0
        THEN [result |-> "panic", rest |-> length_read.rest]
        ELSE IF ~message_read.ok
        THEN [result |-> "ReadMessage", rest |-> message_read.rest]
        ELSE [result |-> "ok", message |-> RawMessage_from(message_read.bytes),
              rest |-> message_read.rest]

InitPeer ==
    /\ pc = "peer"
    /\ trackers = <<>>
    /\ elapsed = 0
    /\ conn = <<>>
    /\ connDone = <<>>
    /\ connections = <<>>
    /\ ann = <<>>
    /\ resolved = <<>>
    /\ peers = <<>>
    /\ rng = 1
    /\ issuedAt = <<>>
    /\ sent = <<>>
    /\ rx = None
    /\ peer_id = <<>>
    /\ sockets = {}
    /\ codec = None
    /\ magnet = None
    /\ \E opts \in Opts : \E remote \in RemoteHandShakes(opts) :
       \E frames \in SeqsUpTo(Frames, MaxFrames) : \E tail \in Tails :
          peer = [st |-> "start", opts |-> opts, remote |-> remote, frames |-> frames,
                  tail |-> tail,
                  stream |-> HandShake_to_bytes(remote).bytes \o Concat(frames) \o tail,
                  open |-> FALSE, written |-> <<>>, handshake |-> None, err |-> "",
                  consumed |-> 0, out |-> <<>>, last |-> "", before |-> <<>>]

(* PeerStream::connect(addr, opts): TcpStream::connect, then the handshake; *)
(* on an error the stream, a local of connect, is dropped.  The connection  *)
(* is refused, or established and then good ("ok") or reset by the remote   *)
(* before the request is written ("reset")                                  *)
PeerConnect ==
    /\ pc = "peer"
    /\ peer.st = "start"
    /\ \E tcp \in {"ok", "refused", "reset"} :
        IF tcp = "refused"
        THEN peer' = [peer EXCEPT !.st = "failed", !.err = "Connect"]
        ELSE LET r == PeerHandshake(peer.stream, peer.opts, tcp = "ok")
             IN  peer' = [peer EXCEPT
                              !.st = r.st,
                              !.err = IF r.st = "failed" THEN r.err ELSE "",
                              !.handshake = IF r.st = "session" THEN r.handshake ELSE None,
                              !.open = r.st = "session",
                              !.written = r.written,
                              !.stream = r.rest,
                              !.consumed = Len(peer.stream) - Len(r.rest)]
    /\ UNCHANGED <<trackerVars, codec, magnet>>

(* PeerStream::read(&mut self) *)
PeerRead ==
    /\ pc = "peer"
    /\ peer.st = "session"
    /\ LET r == ReadMessage(peer.stream)
       IN  peer' = [peer EXCEPT
                        !.st = IF r.result = "panic" THEN "panicked" ELSE "session",
                        !.last = r.result,
                        !.before = peer.stream,
                        !.out = IF r.result = "ok" THEN Append(@, r.message) ELSE @,
                        !.stream = r.rest,
                        !.consumed = @ + Len(peer.stream) - Len(r.rest)]
    /\ UNCHANGED <<trackerVars, codec, magnet>>

NextPeer == PeerConnect \/ PeerRead

SpecPeer == InitPeer /\ [][NextPeer]_vars

----------------------------------------------------------------------------
(* Properties *)

Range(f) == {f[x] : x \in DOMAIN f}

(* the tracker URL the future that received rx talks to, the transaction id *)
(* of its request and its state                                             *)
RxFuture == IF rx.kind = "connect" THEN conn[rx.task] ELSE ann[rx.task]
RxUrl == IF rx.kind = "connect" THEN trackers[rx.task] ELSE connections[rx.task].addr
RxFromTracker == rx # None /\ rx.d.src = ResolvedAddr(RxUrl)
RxFromStranger == rx # None /\ rx.d.src # ResolvedAddr(RxUrl)

(* The announce length the datagram rx would have to have to be well formed *)
RxAnnounceWellFormed ==
    /\ AnnounceLen(rx.d) >= ANNOUNCE_HEADER_SIZE
    /\ (AnnounceLen(rx.d) - ANNOUNCE_HEADER_SIZE) % PEER_ENTRY_SIZE = 0

(* C1: during CONNECT, a 16-byte datagram from the tracker whose            *)
(* transaction_id is not the request's is dropped, and the future keeps     *)
(* waiting for the matching one.                                            *)
C1_ConnectMismatchDropped ==
    (/\ RxFromTracker
     /\ rx.kind = "connect"
     /\ rx.d.len = CONNECT_RESPONSE_SIZE
     /\ rx.d.transaction_id # conn[rx.task].transaction_id)
    => conn[rx.task].st = "waiting"

(* C2: during ANNOUNCE, a well-formed datagram from the tracker whose       *)
(* transaction_id is not the request's is dropped, and the future keeps     *)
(* waiting until the timeout.                                               *)
C2_AnnounceMismatchDropped ==
    (/\ RxFromTracker
     /\ rx.kind = "announce"
     /\ RxAnnounceWellFormed
     /\ rx.d.transaction_id # ann[rx.task].transaction_id)
    => ann[rx.task].st = "waiting"

(* C3: in CONNECT and in ANNOUNCE, a datagram whose source is not the       *)
(* tracker's resolved address, of any size and content, leaves the future   *)
(* waiting: it yields no result, fails nothing and aborts nothing.          *)
C3_StrangerDiscarded ==
    RxFromStranger =>
        /\ RxFuture.st = "waiting"
        /\ pc \in {"connecting", "announcing"}

(* a stranger's datagram that looks like the awaited ANNOUNCE response, with *)
(* the request's transaction_id and a peer list, was received and the       *)
(* future still waits                                                       *)
C3_Witness ==
    /\ RxFromStranger
    /\ rx.kind = "announce"
    /\ rx.d.transaction_id = ann[rx.task].transaction_id
    /\ rx.d.peers # <<>>
    /\ ann[rx.task].st = "waiting"

(* C4: a CONNECT datagram from the tracker that is not exactly 16 bytes     *)
(* long, shorter or longer, fails the exchange and yields no connection_id. *)
C4_ConnectWrongSizeFails ==
    (/\ RxFromTracker
     /\ rx.kind = "connect"
     /\ rx.d.len # CONNECT_RESPONSE_SIZE)
    => conn[rx.task].st = "err"

(* C5: an ANNOUNCE response from the tracker shorter than 20 bytes, or with *)
(* a peer tail that is no multiple of 6, ends the exchange with an error    *)
(* result and aborts nothing.                                               *)
C5_AnnounceWrongSizeIsError ==
    (/\ RxFromTracker
     /\ rx.kind = "announce"
     /\ ~RxAnnounceWellFormed)
    => (ann[rx.task].st = "err" /\ pc # "panicked")

(* C6: a CONNECT response whose action is not 0 yields no connection_id,    *)
(* and an ANNOUNCE response whose action is not 1 yields no peers.          *)
C6_ActionChecked ==
    /\ (RxFromTracker /\ rx.kind = "connect" /\ rx.d.action # 0)
           => conn[rx.task].st # "ok"
    /\ (RxFromTracker /\ rx.kind = "announce" /\ rx.d.action # 1)
           => ann[rx.task].st # "ok"

(* C7: a future whose tracker does not answer ends with the error TimedOut, *)
(* not before the 3 seconds of the wait and without waiting longer; the     *)
(* other trackers' connections are kept, and the peer list returned holds   *)
(* exactly the peers of the ANNOUNCE exchanges that succeeded.              *)
TimedOut(f) == f.st = "err" /\ f.err = "TimedOut"

C7_TimeoutIsolated ==
    /\ \A k \in DOMAIN conn : conn[k].err = "TimedOut" => conn[k].st = "err"
    /\ \A i \in DOMAIN ann : ann[i].err = "TimedOut" => ann[i].st = "err"
    /\ pc = "connecting" =>
          \A k \in DOMAIN conn : TimedOut(conn[k]) => conn[k].at = TIMEOUT_SECS
    /\ elapsed <= TIMEOUT_SECS
    /\ pc \in {"connected", "announcing", "done"} =>
          /\ \A k \in DOMAIN conn :
                conn[k].st = "ok" <=> \E i \in DOMAIN connections : connections[i].task = k
          /\ \A i \in DOMAIN connections :
                connections[i].connection_id = conn[connections[i].task].connection_id
    /\ pc = "done" =>
          /\ \A i \in DOMAIN ann :
                ann[i].st = "ok" => Range(ann[i].peers) \subseteq Range(peers)
          /\ \A p \in Range(peers) :
                \E i \in DOMAIN ann : ann[i].st = "ok" /\ p \in Range(ann[i].peers)

(* TRipClient::new has returned the peers of one tracker although the       *)
(* CONNECT of the other timed out                                           *)
C7_Witness ==
    /\ pc = "done"
    /\ \E k \in DOMAIN conn : TimedOut(conn[k])
    /\ peers # <<>>

(* The requests sent to the tracker at `addr` *)
Requests(kind, addr) == {j \in DOMAIN sent : sent[j].kind = kind /\ sent[j].to = addr}

(* C8: an exchange that reports TimedOut has sent its request at least      *)
(* twice.                                                                   *)
C8_RetryBeforeFailure ==
    /\ \A k \in DOMAIN conn :
          TimedOut(conn[k])
              => Cardinality(Requests("connect", ResolvedAddr(trackers[k]))) >= 2
    /\ \A i \in DOMAIN ann :
          TimedOut(ann[i])
              => Cardinality(Requests("announce", ResolvedAddr(connections[i].addr))) >= 2

(* C9: no ANNOUNCE request carries a connection_id received more than 60    *)
(* seconds before the request is sent.                                      *)
C9_NoExpiredConnectionId ==
    \A j \in DOMAIN sent : sent[j].kind = "announce" => ~sent[j].id_expired

(* C10: every ANNOUNCE request goes to a tracker whose CONNECT succeeded,   *)
(* after the CONNECT request to that tracker, with the connection_id that   *)
(* CONNECT returned; a tracker whose CONNECT failed gets no ANNOUNCE.       *)
C10_AnnounceAfterConnect ==
    /\ \A j \in DOMAIN sent :
          sent[j].kind = "announce" =>
              \E k \in DOMAIN conn :
                  /\ sent[j].to = ResolvedAddr(trackers[k])
                  /\ conn[k].st = "ok"
                  /\ sent[j].connection_id = conn[k].connection_id
                  /\ \E c \in Requests("connect", sent[j].to) : c < j
    /\ \A k \in DOMAIN conn :
          conn[k].st # "ok" => Requests("announce", ResolvedAddr(trackers[k])) = {}

(* an ANNOUNCE left for one tracker while the CONNECT of another had failed *)
C10_Witness ==
    /\ \E j \in DOMAIN sent : sent[j].kind = "announce"
    /\ \E k \in DOMAIN conn : conn[k].st = "err" /\ conn[k].err = "TxMismatch"

(* The places (response, index) where address p occurs in the successful    *)
(* ANNOUNCE responses, the responses taken in completion order, and the     *)
(* order of two places in their concatenation                               *)
Places(p) == {<<r, k>> \in (DOMAIN resolved) \X (1..MaxPeers) :
                 k \in DOMAIN resolved[r] /\ resolved[r][k] = p}
Precedes(a, b) == a[1] < b[1] \/ (a[1] = b[1] /\ a[2] < b[2])
FirstSeen(p) == CHOOSE a \in Places(p) : \A b \in Places(p) : a = b \/ Precedes(a, b)

(* C11: the peer list returned holds no address twice, holds every address  *)
(* of every successful ANNOUNCE response and no other, and orders the       *)
(* addresses by their first occurrence in the concatenation of the          *)
(* responses taken in completion order.                                     *)
C11_PeersDeduplicated ==
    pc = "done" =>
        /\ \A i, j \in DOMAIN peers : i # j => peers[i] # peers[j]
        /\ \A i \in DOMAIN ann :
              ann[i].st = "ok" =>
                  /\ \E r \in DOMAIN resolved : resolved[r] = ann[i].peers
                  /\ Range(ann[i].peers) \subseteq Range(peers)
        /\ \A p \in Range(peers) : Places(p) # {}
        /\ \A i, j \in DOMAIN peers :
              i < j => Precedes(FirstSeen(peers[i]), FirstSeen(peers[j]))

(* two trackers answered with the same two addresses in opposite orders,    *)
(* and the list returned keeps each once, in the order of the response that *)
(* completed first                                                          *)
C11_Witness ==
    /\ pc = "done"
    /\ resolved = << <<"q", "p">>, <<"p", "q">> >>
    /\ peers = <<"q", "p">>

(* The trackers whose exchange failed or aborted *)
Misbehaving ==
    {k \in DOMAIN conn : conn[k].st = "err"}
    \cup {connections[i].task : i \in {j \in DOMAIN ann : ann[j].st \in {"err", "panic"}}}

(* C12: when no more than one tracker misbehaves (times out, answers with a *)
(* wrong transaction id or a malformed response, does not resolve), the     *)
(* bootstrap is not aborted.                                                *)
C12_OneBadTrackerIsolated ==
    (magnet.st = "Ok" /\ Cardinality(Misbehaving) <= 1) => pc # "panicked"

(* C13: a tracker URL whose scheme is not udp is sent no CONNECT datagram   *)
(* and gets no connection.                                                  *)
C13_OnlyUdpContacted ==
    \A k \in DOMAIN trackers :
        trackers[k].scheme # "udp" =>
            /\ Requests("connect", ResolvedAddr(trackers[k])) = {}
            /\ \A i \in DOMAIN connections : connections[i].addr # trackers[k]

(* C14: an ANNOUNCE request leaves from the socket the CONNECT request to   *)
(* the same tracker left from.                                              *)
C14_OneSocketPerTracker ==
    \A j \in DOMAIN sent :
        sent[j].kind = "announce" =>
            \A c \in Requests("connect", sent[j].to) : sent[c].socket = sent[j].socket

(* C18: for a HandShake with a pstr of 0 to 255 bytes and 20-byte info_hash *)
(* and peer_id, to_bytes yields 49 + len(pstr) bytes with 8 zero bytes      *)
(* after pstr, and from_bytes of them yields the record again.              *)
C18_HandShakeRoundTrip ==
    pc = "codec" =>
        /\ codec.st # "panicked"
        /\ codec.st \in {"bytes", "decoded"} =>
              /\ Len(codec.bytes) = HANDSHAKE_FIXED_SIZE + Len(codec.h.pstr)
              /\ codec.bytes[1] = Len(codec.h.pstr)
              /\ SubSeq(codec.bytes, Len(codec.h.pstr) + 2,
                        Len(codec.h.pstr) + 1 + RESERVED_SIZE) = Bytes(RESERVED_SIZE, 0)
        /\ codec.st = "decoded" => codec.out = codec.h

(* PeerStream::connect has run, the TCP connection was made and the request *)
(* was written to it                                                        *)
Connected ==
    pc = "peer" /\ peer.st # "start" /\ peer.err \notin {"Connect", "WriteHandshake"}

(* C15: whenever the pstr of the response differs from the requester's, be  *)
(* its pstrlen byte the same, smaller or larger, the handshake ends with    *)
(* the error BadProtocol and aborts nothing.                                *)
C15_PstrMismatchIsBadProtocol ==
    (Connected /\ peer.remote.pstr # peer.opts.protocol)
        => (peer.st = "failed" /\ peer.err = "BadProtocol")

(* C16: a response with the requester's pstr and another info_hash ends the *)
(* handshake with BadInfoHash; a response that differs in both ends it with *)
(* BadProtocol.                                                             *)
C16_InfoHashMismatchIsBadInfoHash ==
    (Connected /\ peer.remote.info_hash # peer.opts.info_hash)
        => /\ peer.st = "failed"
           /\ peer.err = IF peer.remote.pstr = peer.opts.protocol
                         THEN "BadInfoHash" ELSE "BadProtocol"

(* C17: the handshake succeeds exactly when pstr and info_hash of the       *)
(* response equal the requester's, whatever the peer_id of the response,    *)
(* and the session then stores the handshake the remote sent.               *)
C17_HandshakeSucceedsIff ==
    Connected =>
        /\ peer.handshake # None
              <=> (/\ peer.remote.pstr = peer.opts.protocol
                   /\ peer.remote.info_hash = peer.opts.info_hash)
        /\ peer.handshake # None => peer.handshake = peer.remote

(* The frame length of a length prefix without its top bit, the body of a   *)
(* whole frame and the message it carries                                   *)
PrefixLength(bytes) == ((bytes[1] * BYTE + bytes[2]) * BYTE + bytes[3]) * BYTE + bytes[4]
AtWholeFrame(stream) ==
    /\ Len(stream) >= LENGTH_PREFIX_SIZE
    /\ stream[1] < BYTE \div 2
    /\ Len(stream) >= LENGTH_PREFIX_SIZE + PrefixLength(stream)
Carried(frame) ==
    IF PrefixLength(frame) = 0 THEN [message_id |-> 0, payload |-> <<>>]
    ELSE [message_id |-> frame[LENGTH_PREFIX_SIZE + 1],
          payload |-> SubSeq(frame, LENGTH_PREFIX_SIZE + 2,
                             LENGTH_PREFIX_SIZE + PrefixLength(frame))]

(* C19: read_message on a stream that starts with a whole frame returns the *)
(* keep-alive sentinel when the length L is 0, and otherwise the first of   *)
(* the L bytes as message_id and the other L-1 as payload.                  *)
C19_ReadMessageDecodesFrame ==
    (pc = "peer" /\ peer.last # "" /\ AtWholeFrame(peer.before))
        => /\ peer.last = "ok"
           /\ peer.out[Len(peer.out)] = Carried(peer.before)

(* a keep-alive and then the frame [0,0,0,2,200,7] were read *)
C19_Witness ==
    /\ pc = "peer"
    /\ peer.last = "ok"
    /\ peer.out = <<[message_id |-> 0, payload |-> <<>>], [message_id |-> 200, payload |-> <<7>>]>>

(* C20: the i-th read_message of a session returns the i-th frame the       *)
(* remote sent, keep-alives included; a call that returns frame i has       *)
(* consumed the stream up to the end of frame i, and no call fails before   *)
(* every whole frame was returned.                                          *)
RECURSIVE FramesLength(_, _)
FramesLength(frames, n) ==
    IF n = 0 THEN 0 ELSE FramesLength(frames, n - 1) + Len(frames[n])

C20_FramesInWireOrder ==
    (pc = "peer" /\ peer.handshake # None)
        => /\ Len(peer.out) <= Len(peer.frames)
           /\ \A i \in DOMAIN peer.out : peer.out[i] = Carried(peer.frames[i])
           /\ peer.last \in {"", "ok"} =>
                 peer.consumed = HANDSHAKE_FIXED_SIZE + Len(peer.opts.protocol)
                                     + FramesLength(peer.frames, Len(peer.out))
           /\ peer.last \notin {"", "ok"} => Len(peer.out) = Len(peer.frames)

(* a keep-alive followed by a Choke were returned in that order and the     *)
(* stream is used up                                                        *)
C20_Witness ==
    /\ pc = "peer"
    /\ peer.frames = << <<0, 0, 0, 0>>, <<0, 0, 0, 1, 0>> >>
    /\ Len(peer.out) = Len(peer.frames)
    /\ peer.last = "ok"
    /\ peer.stream = <<>>

(* C21: a read_message that finds the stream ended before the 4 length      *)
(* bytes, or before the L bytes the length prefix announces, returns an     *)
(* error, aborts nothing and delivers no message: the messages delivered    *)
(* are never more than the whole frames the remote sent.                    *)
C21_ShortReadIsError ==
    (pc = "peer" /\ peer.last # "" /\ ~AtWholeFrame(peer.before))
        => /\ peer.last \in {"ReadLength", "ReadMessage"}
           /\ peer.st = "session"
           /\ Len(peer.out) <= Len(peer.frames)

(* C22: the length prefix is read as an unsigned 32-bit integer: a prefix   *)
(* with its top bit set announces 2^31 bytes or more, which no stream here  *)
(* holds, so the read of the body is what fails; a smaller prefix L makes   *)
(* a successful read_message take 4 + L bytes from the stream.              *)
C22_LengthPrefixUnsigned ==
    (pc = "peer" /\ peer.last # "" /\ Len(peer.before) >= LENGTH_PREFIX_SIZE)
        => IF peer.before[1] >= BYTE \div 2
           THEN peer.last = "ReadMessage" /\ peer.st = "session"
           ELSE peer.last = "ok" =>
                    Len(peer.before) - Len(peer.stream)
                        = LENGTH_PREFIX_SIZE + PrefixLength(peer.before)

(* C23: the keep-alive frame [0,0,0,0] and the Choke frame [0,0,0,1,0] are  *)
(* returned by read_message as two different values.                        *)
KeepAliveFrame == Bytes(LENGTH_PREFIX_SIZE, 0)
ChokeFrame == <<0, 0, 0, 1, 0>>

C23_KeepAliveIsNotChoke ==
    pc = "peer" =>
        \A i, j \in DOMAIN peer.out :
            (peer.frames[i] = KeepAliveFrame /\ peer.frames[j] = ChokeFrame)
                => peer.out[i] # peer.out[j]

(* C24: MessageTypes::from succeeds for every id 0..9 and returns the type  *)
(* whose discriminant is the id: 0 Choke, 1 Unchoke, 2 Interested,          *)
(* 3 NotInterested, 4 Have, 5 Bitfield, 6 Request, 7 Piece, 8 Cancel,       *)
(* 9 Port.                                                                  *)
C24_EveryIdConverts ==
    (pc = "types" /\ codec.st # "id" /\ codec.value \in 0..(Len(MessageTypes) - 1))
        => /\ codec.st = "type"
           /\ codec.type = MessageTypes[codec.value + 1]

(* from_link has run on magnet.link *)
Parsed == magnet # None /\ magnet.st # "link"

(* The items of a link: what stands between the '&' after the 8-character   *)
(* prefix of the percent-decoded link; none when the link cannot be decoded *)
(* or is shorter than the prefix                                            *)
ItemsOf(link) ==
    LET decoded == UrlDecode(link)
    IN  IF ~decoded.ok THEN <<>>
        ELSE IF Len(decoded.str) < MAGNET_PREFIX_SIZE THEN <<>>
        ELSE Split(SubSeq(decoded.str, MAGNET_PREFIX_SIZE + 1, Len(decoded.str)), "&")

HasKey(item, key) == SplitOnce(item, "=").some /\ SplitOnce(item, "=").id = key
ValueOf(item) == SplitOnce(item, "=").value
LastChars(s, n) == SubSeq(s, Len(s) - n + 1, Len(s))

(* An xt item whose last 40 characters are hex: it yields 20 bytes *)
YieldsHash(item) ==
    /\ HasKey(item, <<"x", "t">>)
    /\ Len(ValueOf(item)) >= XT_HEX_SIZE
    /\ HexDecode(LastChars(ValueOf(item), XT_HEX_SIZE)).ok
HashOf(item) == HexDecode(LastChars(ValueOf(item), XT_HEX_SIZE)).bytes
XtItems(link) == SelectSeq(ItemsOf(link), YieldsHash)

(* C25: from_link returns a Magnet or an error for every link and never     *)
(* aborts, whether an item has no '=' (the empty item after a trailing '&'  *)
(* is one), an xt value has less than 40 characters or the link less than   *)
(* the 8 of the prefix.                                                     *)
C25_FromLinkTotal ==
    Parsed => magnet.st \in {"Ok", "Err"}

(* C26: a link without an xt that yields 20 bytes makes from_link return an *)
(* error, and a Magnet is returned only for a link with such an xt.         *)
C26_NoMagnetWithoutXt ==
    Parsed => /\ XtItems(magnet.link) = <<>> => magnet.st = "Err"
              /\ magnet.st = "Ok" => XtItems(magnet.link) # <<>>

(* The URLs of the tr items of a link that Url::from_str accepts, in the    *)
(* order of the link                                                        *)
IsTrUrl(item) == HasKey(item, <<"t", "r">>) /\ Url_from_str(ValueOf(item)).ok
TrUrls(link) ==
    [i \in DOMAIN SelectSeq(ItemsOf(link), IsTrUrl) |->
        Url_from_str(ValueOf(SelectSeq(ItemsOf(link), IsTrUrl)[i])).url]

(* An item that from_link has no reason to stumble over: key=value with a   *)
(* key other than xt, or an xt that yields 20 bytes; an item of an unknown  *)
(* key                                                                      *)
Harmless(item) == SplitOnce(item, "=").some /\ (HasKey(item, <<"x", "t">>) => YieldsHash(item))
KnownKey(item) ==
    ~SplitOnce(item, "=").some \/ SplitOnce(item, "=").id \in {<<"x", "t">>, <<"d", "n">>, <<"t", "r">>}

(* C27: the trackers of the Magnet returned are the tr values that parse as *)
(* URLs, in the order of the link and as often as they occur; a tr value    *)
(* that does not parse makes no parse fail, and the items of unknown keys   *)
(* can be left out of the link without changing what from_link returns.     *)
C27_TrackersInUriOrder ==
    Parsed =>
        /\ magnet.st = "Ok" => magnet.trackers = TrUrls(magnet.link)
        /\ (ItemsOf(magnet.link) # <<>> /\ \A i \in DOMAIN ItemsOf(magnet.link) :
                                              Harmless(ItemsOf(magnet.link)[i]))
               => magnet.st = "Ok"
        /\ (magnet.st = "Ok" /\ SelectSeq(ItemsOf(magnet.link), KnownKey) # <<>>)
               => Magnet_from_link(Prefix \o Join(SelectSeq(ItemsOf(magnet.link), KnownKey)))
                      = [result |-> "Ok",
                         magnet |-> [info_hash |-> magnet.info_hash,
                                     display_name |-> magnet.display_name,
                                     trackers |-> magnet.trackers]]

(* a link with the trackers http://b, an unparseable one and udp://a: the   *)
(* Magnet holds the two URLs in this order                                  *)
C27_Witness ==
    /\ Parsed
    /\ magnet.link = Prefix \o Join(<<TrHttpB, TrNoUrl, TrUdpA>>)
    /\ magnet.st = "Ok"
    /\ magnet.trackers = <<Urls[2], Urls[1]>>

(* C28: a link with several xt gives the info_hash of the last xt that      *)
(* yields 20 bytes, and from_link returns a Magnet whenever one xt does.    *)
C28_LastXtWins ==
    (Parsed /\ XtItems(magnet.link) # <<>>)
        => /\ magnet.st = "Ok"
           /\ magnet.info_hash = HashOf(XtItems(magnet.link)[Len(XtItems(magnet.link))])

(* C29: when from_link yields no Magnet, TRipClient::new returns the error  *)
(* to its caller, and no socket was bound and no datagram sent.             *)
C29_BadLinkIsReturned ==
    (Parsed /\ magnet.st # "Ok")
        => /\ pc = "failed"
           /\ conn = <<>>
           /\ sent = <<>>

(* TRipClient::new is over and every tracker of the magnet, if it has any,  *)
(* failed in its CONNECT or in its ANNOUNCE                                 *)
EveryTrackerFailed ==
    /\ Parsed
    /\ magnet.st = "Ok"
    /\ pc \in {"done", "panicked"}
    /\ \A k \in DOMAIN trackers :
          \/ conn[k].st = "err"
          \/ \E i \in DOMAIN ann : connections[i].task = k /\ ann[i].st \in {"err", "panic"}

(* C30: when every tracker failed, or the magnet has none, TRipClient::new  *)
(* ends without an error or abort and the peer list is empty.               *)
C30_AllFailedIsEmptyList ==
    EveryTrackerFailed => (pc = "done" /\ peers = <<>>)

(* C31: every ANNOUNCE request sent carries downloaded, left, uploaded and  *)
(* event 0, the peer_id of the client, which starts with its signature, the *)
(* info_hash of the magnet, action 1, ip_address 0, num_want -1 and port    *)
(* 6881, and the connection_id of the connection to the tracker it goes to. *)
C31_AnnounceFields ==
    \A j \in DOMAIN sent :
        sent[j].kind = "announce" =>
            /\ sent[j].downloaded = 0 /\ sent[j].left = 0 /\ sent[j].uploaded = 0
            /\ sent[j].event = 0
            /\ sent[j].peer_id = peer_id
            /\ Len(peer_id) = PEER_ID_SIZE
            /\ SubSeq(peer_id, 1, Len(SIGNATURE)) = SIGNATURE
            /\ sent[j].info_hash = magnet.info_hash
            /\ sent[j].action = 1
            /\ sent[j].ip_address = 0
            /\ sent[j].num_want = NUM_WANT
            /\ sent[j].port = ANNOUNCE_PORT
            /\ sent[j].len = ANNOUNCE_REQUEST_BYTES
            /\ \E i \in DOMAIN connections :
                  /\ sent[j].to = ResolvedAddr(connections[i].addr)
                  /\ sent[j].connection_id = connections[i].connection_id
            /\ \A i \in DOMAIN connections :
                  sent[j].to = ResolvedAddr(connections[i].addr)
                      => sent[j].connection_id = connections[i].connection_id

(* two ANNOUNCE requests left for two trackers that had handed out          *)
(* different connection ids                                                 *)
C31_Witness ==
    \E j, k \in DOMAIN sent :
        /\ sent[j].kind = "announce" /\ sent[k].kind = "announce"
        /\ sent[j].to # sent[k].to
        /\ sent[j].connection_id # sent[k].connection_id

(* An ANNOUNCE response of 20 + 6k bytes was handed to the decoder *)
WholeAnnounce ==
    /\ pc = "wire"
    /\ codec.decoder = "AnnounceResponse"
    /\ codec.st # "input"
    /\ codec.length >= ANNOUNCE_HEADER_SIZE
    /\ (codec.length - ANNOUNCE_HEADER_SIZE) % PEER_ENTRY_SIZE = 0
PeerCount == (codec.length - ANNOUNCE_HEADER_SIZE) \div PEER_ENTRY_SIZE

(* C32: an ANNOUNCE response of 20 + 6k bytes decodes to k peers, the i-th  *)
(* (from 0) with the address of the bytes 20+6i .. 20+6i+3 and the port     *)
(* that the next two bytes are as a big-endian u16; none for k = 0.         *)
C32_AnnouncePeersInWireOrder ==
    WholeAnnounce =>
        /\ codec.st = "decoded"
        /\ Len(codec.out.peers) = PeerCount
        /\ \A i \in 0..(PeerCount - 1) :
              LET at == ANNOUNCE_HEADER_SIZE + PEER_ENTRY_SIZE * i
              IN  /\ codec.out.peers[i + 1].ip
                         = <<codec.bytes[at + 1], codec.bytes[at + 2],
                             codec.bytes[at + 3], codec.bytes[at + 4]>>
                  /\ codec.out.peers[i + 1].port
                         = codec.bytes[at + 5] * BYTE + codec.bytes[at + 6]

(* two different entries were decoded from a buffer that still held an      *)
(* older entry behind them                                                  *)
C32_Witness ==
    /\ WholeAnnounce
    /\ codec.st = "decoded"
    /\ Len(codec.bytes) > codec.length
    /\ codec.out.peers = <<[ip |-> <<192, 168, 1, 2>>, port |-> 80],
                           [ip |-> <<10, 0, 0, 1>>, port |-> 6881]>>

(* The fixed size of the record a decoder reads: 16 bytes, 20 bytes, and 49 *)
(* bytes plus the pstr its first byte announces                             *)
FixedSize ==
    IF codec.decoder = "ConnectResponse" THEN CONNECT_RESPONSE_SIZE
    ELSE IF codec.decoder = "AnnounceResponse" THEN ANNOUNCE_HEADER_SIZE
    ELSE IF codec.bytes = <<>> THEN HANDSHAKE_FIXED_SIZE
    ELSE HANDSHAKE_FIXED_SIZE + codec.bytes[1]

(* C33: a decoder given fewer bytes than the fixed size of its record       *)
(* returns an error: it neither aborts nor returns a record.                *)
C33_ShortInputIsBadFormat ==
    (pc = "wire" /\ codec.st # "input" /\ codec.length < FixedSize)
        => codec.st = "BadFormat"


(* C35: a peer session exists only after a handshake whose pstr and         *)
(* info_hash matched the request's; when connect returns the session the   *)
(* client has written its request and has taken exactly                    *)
(* 49 + Len(opts.protocol) bytes from the stream, so the stream stands at  *)
(* the first byte the remote sent after its handshake, and that is where   *)
(* the first read_message starts (a read_message before which only the    *)
(* handshake was consumed started there); before connect nothing is read   *)
HandshakeLength == HANDSHAKE_FIXED_SIZE + Len(peer.opts.protocol)
AfterHandshake == Concat(peer.frames) \o peer.tail
C35_SessionStartsAfterHandshake ==
    pc = "peer" =>
    /\ peer.st = "start" => peer.consumed = 0 /\ peer.out = <<>> /\ ~peer.open
    /\ peer.open =>
          /\ peer.handshake # None
          /\ peer.handshake.pstr = peer.opts.protocol
          /\ peer.handshake.info_hash = peer.opts.info_hash
          /\ Len(peer.written) = HandshakeLength
    /\ (peer.st = "session" /\ peer.last = "") =>
          /\ peer.open
          /\ peer.consumed = HandshakeLength
          /\ peer.stream = AfterHandshake
    /\ (peer.last # "" /\ peer.consumed - (Len(peer.before) - Len(peer.stream))
                             = HandshakeLength) =>
          peer.before = AfterHandshake
C35_Witness ==
    /\ pc = "peer"
    /\ peer.st = "session"
    /\ peer.last = "ok"
    /\ Len(peer.out) = 1
    /\ peer.frames # <<>>
    /\ peer.before = AfterHandshake
    /\ peer.consumed = HandshakeLength + Len(Head(peer.frames))

(* C36: when the handshake has to fail (the request cannot be written, the *)
(* remote's pstr or info_hash differs from the request's, or the remote    *)
(* closes before a whole handshake came), connect returns an error, no     *)
(* session exists and the connection is closed                             *)
HandshakeHasToFail ==
    \/ peer.err = "WriteHandshake"
    \/ peer.remote.pstr # peer.opts.protocol
    \/ peer.remote.info_hash # peer.opts.info_hash
C36_FailedHandshakeIsError ==
    (pc = "peer" /\ peer.st # "start" /\ peer.err # "Connect" /\ HandshakeHasToFail) =>
        /\ peer.st = "failed"
        /\ peer.err \in {"WriteHandshake", "ReadHandshake", "BadProtocol", "BadInfoHash"}
        /\ peer.handshake = None
        /\ ~peer.open


(* C37: a CONNECT future becomes Ok with connection_id X only in the step   *)
(* that receives, on its socket, a datagram from the resolved address of   *)
(* its tracker that carries the transaction_id of its request and X as     *)
(* connection_id; an ANNOUNCE future becomes Ok with a peer list only in   *)
(* the step that receives a datagram from its tracker's address with the   *)
(* transaction_id of its request, and the list is the one of that datagram *)
ConnectRequestOf(k, tx) ==
    \E j \in DOMAIN sent : /\ sent[j].kind = "connect"
                           /\ sent[j].to = ResolvedAddr(trackers[k])
                           /\ sent[j].transaction_id = tx
AnnounceRequestOf(i, tx) ==
    \E j \in DOMAIN sent : /\ sent[j].kind = "announce"
                           /\ sent[j].to = ResolvedAddr(connections[i].addr)
                           /\ sent[j].transaction_id = tx
ConnectOkStep ==
    \A k \in DOMAIN conn' :
        (conn'[k].st = "ok" /\ (k \in DOMAIN conn => conn[k].st # "ok")) =>
            /\ k \in DOMAIN conn
            /\ rx' # None /\ rx'.kind = "connect" /\ rx'.task = k
            /\ rx'.d.src = ResolvedAddr(trackers[k])
            /\ rx'.d.len >= CONNECT_RESPONSE_SIZE
            /\ ConnectRequestOf(k, rx'.d.transaction_id)
            /\ rx'.d.transaction_id = conn[k].transaction_id
            /\ conn'[k].connection_id = rx'.d.connection_id
AnnounceOkStep ==
    \A i \in DOMAIN ann' :
        (ann'[i].st = "ok" /\ (i \in DOMAIN ann => ann[i].st # "ok")) =>
            /\ i \in DOMAIN ann
            /\ rx' # None /\ rx'.kind = "announce" /\ rx'.task = i
            /\ rx'.d.src = ResolvedAddr(connections[i].addr)
            /\ AnnounceRequestOf(i, rx'.d.transaction_id)
            /\ rx'.d.transaction_id = ann[i].transaction_id
            /\ ann'[i].peers = rx'.d.peers
            /\ resolved' = Append(resolved, rx'.d.peers)
C37_ResultOnlyFromTracker ==
    [][ConnectOkStep /\ AnnounceOkStep /\ (resolved' # resolved => \E i \in DOMAIN ann : ann[i].st # "ok" /\ ann'[i].st = "ok")]_vars

(* both trackers answered their CONNECT with different connection ids, and  *)
(* an ANNOUNCE response from the tracker with a peer list was accepted      *)
C37_Witness ==
    /\ pc = "announcing"
    /\ Len(connections) = 2
    /\ connections[1].connection_id # connections[2].connection_id
    /\ rx # None /\ rx.kind = "announce"
    /\ ann[rx.task].st = "ok"
    /\ ann[rx.task].peers = rx.d.peers
    /\ rx.d.peers # <<>>


(* C39: an ANNOUNCE request is sent only when the CONNECT future of every   *)
(* tracker has completed, so in the order of sending every CONNECT request *)
(* precedes every ANNOUNCE request; and TRipClient::new has its peer list  *)
(* only when every ANNOUNCE future has completed                           *)
C39_TwoPhases ==
    /\ \A j \in DOMAIN sent :
          sent[j].kind = "announce" =>
              /\ pc \in {"announcing", "done", "panicked"}
              /\ conn # <<>>
              /\ \A k \in DOMAIN conn : conn[k].st \in {"ok", "err"}
              /\ \A h \in DOMAIN sent : sent[h].kind = "connect" => h < j
    /\ pc = "done" => \A i \in DOMAIN ann : ann[i].st \in {"ok", "err"}
    /\ (pc \in {"start", "new", "connecting", "connected", "announcing"}) => peers = <<>>

(* one tracker answered its CONNECT and the other timed out before the two  *)
(* phases ended with a peer list                                            *)
C39_Witness ==
    /\ pc = "done"
    /\ peers # <<>>
    /\ Len(conn) = 2
    /\ \E k \in DOMAIN conn : conn[k].err = "TimedOut"
    /\ \E j \in DOMAIN sent : sent[j].kind = "announce"


(* C34: a future that has completed, with Ok, with an error or by timeout, *)
(* holds no socket, and when Trackers::new or TRipClient::new has returned *)
(* (with the client or, early, with the error of the link) no socket the   *)
(* futures bound is open                                                   *)
C34_NoSocketLeft ==
    /\ \A s \in sockets :
          /\ s.kind = "connect" => pc = "connecting" /\ conn[s.task].st = "waiting"
          /\ s.kind = "announce" => pc = "announcing" /\ ann[s.task].st = "waiting"
    /\ pc \in {"connected", "done", "failed", "panicked"} => sockets = {}

(* four sockets were bound, two per phase; one ANNOUNCE future timed out,   *)
(* the other returned Ok, and TRipClient::new is back with no socket open   *)
C34_Witness ==
    /\ pc = "done"
    /\ Cardinality({sent[j].socket : j \in DOMAIN sent}) = 4
    /\ \E i \in DOMAIN ann : ann[i].err = "TimedOut"
    /\ \E i \in DOMAIN ann : ann[i].st = "ok"
    /\ sockets = {}


(* C38: once the link is parsed, every CONNECT and every ANNOUNCE future    *)
(* eventually completes with Ok or with an error (a timeout is one), also   *)
(* when other senders keep sending to its socket, and TRipClient::new       *)
(* eventually returns, whatever the trackers do                             *)
EveryTaskCompleted ==
    /\ \A k \in DOMAIN conn : conn[k].st \in {"ok", "err"}
    /\ \A i \in DOMAIN ann : ann[i].st \in {"ok", "err"}
C38_BootstrapReturns ==
    (magnet.st = "Ok") ~> (pc = "done" /\ EveryTaskCompleted)

====
